---------------------------- MODULE Spec2Model ----------------------------
(***************************************************************************)
(* Zero-Trust Explainer: the rule engine of backend/scan_processor.py and  *)
(* the synthesis layer (class AIService) of backend/main.py.               *)
(*                                                                         *)
(* Python strings that the code inspects character by character (role     *)
(* names, environment-variable names) are sequences of one-character       *)
(* strings, so that `in` (substring) and lower() are computed.  Strings    *)
(* the code only compares as a whole (principals, severities, canned       *)
(* texts) are TLA+ strings.  An optional value (None or a value) is a      *)
(* sequence of length 0 or 1.                                              *)
(***************************************************************************)
EXTENDS Integers, Sequences, FiniteSets, TLC

VARIABLES
    \* ---- rule engine (scan_processor.py) ----
    binding,      \* the binding handed to analyze_iam_binding
    findings0,    \* the findings list as it was when analyze_iam_binding was called
    findings,     \* the findings list after analyze_iam_binding returned
    bpc,          \* "call" before analyze_iam_binding ran, "done" after, "idle" when unused
    policy,       \* the IAM policy of the scanned service: a sequence of bindings
    service,      \* the scanned service's template: vpc_access, timeout, containers
    scans,        \* the results of the calls of scan_cloud_run_service so far, oldest first
    \* ---- synthesis layer (main.py, class AIService) ----
    ai_enabled,   \* AIService.ai_enabled: a backend model was selected at start-up
    backend,      \* what the backend's generate_content does when it is called
    stored,       \* the findings stored for the job that is summarised
    call,         \* the latest synthesis call: operation, input, backend response, result
    first,        \* the first generate_explanation call made with the backend disabled
    attempt,      \* a synthesis call followed step by step: position, backend invocations
    \* ---- callers and collaborators (endpoints, jobs, store, queue) ----
    collab,       \* what the collaborators (store, job API, bucket) do during the run
    request,      \* the latest request served by an endpoint or a job, with its outcome
    store,        \* the rows inserted into the findings table, oldest first
    message,      \* the scan-request message of the queue: pending, acked or nacked
    clock,        \* the latest reading of datetime.now()
    bucket,       \* the uploads made to the job's report object, oldest first
    job           \* the scan-processor job execution triggered for the scan request

ruleVars == <<binding, findings0, findings, bpc, policy, service, scans>>
synthVars == <<ai_enabled, backend, stored, call, first>>
pipeVars == <<attempt, collab, request, store, message, clock, bucket, job>>
vars == <<ruleVars, synthVars, pipeVars>>

-----------------------------------------------------------------------------
(* Bounds of the model *)

MaxMembers == 11     \* ordinary principals per binding (the viewer rule triggers above 10 members)
MaxBindings == 2     \* bindings per policy in a scan
MaxEnv == 2          \* environment variables declared by a service
MaxList == 2         \* findings handed to a summary or proposal call
MaxFindings == 6     \* findings of a job summarised by the fallback summary

(* Constants of the program *)

BroadMemberLimit == 10       \* the viewer rule: len(members) > 10
LongTimeoutSeconds == 300    \* the timeout rule: timeout_seconds > 300

-----------------------------------------------------------------------------
(* Strings as character sequences *)

Range(s) == { s[i] : i \in DOMAIN s }

\* Python: sub in s
Contains(s, sub) ==
    \E i \in 0..(Len(s) - Len(sub)) : SubSeq(s, i + 1, i + Len(sub)) = sub

UpperToLower ==
    ("A" :> "a") @@ ("B" :> "b") @@ ("C" :> "c") @@ ("D" :> "d") @@ ("E" :> "e") @@
    ("F" :> "f") @@ ("G" :> "g") @@ ("H" :> "h") @@ ("I" :> "i") @@ ("J" :> "j") @@
    ("K" :> "k") @@ ("L" :> "l") @@ ("M" :> "m") @@ ("N" :> "n") @@ ("O" :> "o") @@
    ("P" :> "p") @@ ("Q" :> "q") @@ ("R" :> "r") @@ ("S" :> "s") @@ ("T" :> "t") @@
    ("U" :> "u") @@ ("V" :> "v") @@ ("W" :> "w") @@ ("X" :> "x") @@ ("Y" :> "y") @@
    ("Z" :> "z")

\* Python: s.lower()
Lower(s) ==
    [i \in DOMAIN s |-> IF s[i] \in DOMAIN UpperToLower THEN UpperToLower[s[i]] ELSE s[i]]

ROLE_OWNER == <<"r", "o", "l", "e", "s", "/", "o", "w", "n", "e", "r">>
ROLE_EDITOR == <<"r", "o", "l", "e", "s", "/", "e", "d", "i", "t", "o", "r">>
ROLE_VIEWER == <<"r", "o", "l", "e", "s", "/", "v", "i", "e", "w", "e", "r">>
ROLE_INVOKER == <<"r", "o", "l", "e", "s", "/", "r", "u", "n", ".", "i", "n", "v", "o", "k", "e", "r">>
ROLE_BARE_OWNER == <<"o", "w", "n", "e", "r">>
ROLE_EMPTY == <<>>

ENV_DB_PASSWORD == <<"D", "B", "_", "P", "A", "S", "S", "W", "O", "R", "D">>
ENV_API_KEY_MIXED == <<"A", "p", "i", "_", "K", "e", "y">>
ENV_API_KEY_LOWER == <<"a", "p", "i", "_", "k", "e", "y">>
ENV_PORT == <<"P", "O", "R", "T">>
ENV_TOKEN_SECRET == <<"T", "O", "K", "E", "N", "_", "S", "E", "C", "R", "E", "T">>

KW_KEY == <<"k", "e", "y">>
KW_SECRET == <<"s", "e", "c", "r", "e", "t">>
KW_TOKEN == <<"t", "o", "k", "e", "n">>
KW_PASSWORD == <<"p", "a", "s", "s", "w", "o", "r", "d">>
KW_CREDENTIAL == <<"c", "r", "e", "d", "e", "n", "t", "i", "a", "l">>

\* the keyword list of the secret-like environment variable check
SecretKeywords == <<KW_KEY, KW_SECRET, KW_TOKEN, KW_PASSWORD, KW_CREDENTIAL>>

-----------------------------------------------------------------------------
(* Fragments: the dicts appended to the findings list *)

Fragment(sev, issue, rec, score) ==
    [severity |-> sev, issue |-> issue, recommendation |-> rec, risk_score |-> score]

UnauthenticatedFragment ==
    Fragment("CRITICAL", <<"Service allows unauthenticated access">>,
             "Remove allUsers/allAuthenticatedUsers from IAM policy. Restrict to specific service accounts or users.",
             95)

ExcessiveRoleFragment(role) ==
    Fragment("HIGH", <<"Service has ", role, " permission (excessive privileges)">>,
             "Use least-privilege IAM roles. Replace with specific roles needed by the service.",
             85)

BroadAccessFragment(role, n) ==
    Fragment("MEDIUM", <<"Service has ", role, " permission with ", n, " members">>,
             "Review and restrict access to necessary members only.",
             60)

NoVpcFragment ==
    Fragment("MEDIUM", <<"Service has no VPC connector configured">>,
             "Configure VPC connector for private network access to databases and other internal services",
             55)

LongTimeoutFragment(timeout_seconds) ==
    Fragment("MEDIUM", <<"Service has long timeout (", timeout_seconds, "s)">>,
             "Configure appropriate timeout (typically 60-300s) to prevent DoS attacks",
             50)

SecretEnvFragment(var_name) ==
    Fragment("HIGH", <<"Service exposes sensitive environment variable: ", var_name>>,
             "Use Google Secret Manager to store secrets instead of environment variables",
             80)

-----------------------------------------------------------------------------
(* analyze_iam_binding: appends to the caller's findings list, in rule order *)

analyze_iam_binding_role_gated(resource_name, b, fs) ==
    LET role == b.role
        members == b.members
        f1 == IF ("allUsers" \in Range(members) \/ "allAuthenticatedUsers" \in Range(members))
                 /\ Contains(role, ROLE_INVOKER)
              THEN Append(fs, UnauthenticatedFragment) ELSE fs
        f2 == IF Contains(role, ROLE_OWNER) \/ Contains(role, ROLE_EDITOR)
              THEN Append(f1, ExcessiveRoleFragment(role)) ELSE f1
        f3 == IF Contains(role, ROLE_VIEWER) /\ Len(members) > BroadMemberLimit
              THEN Append(f2, BroadAccessFragment(role, Len(members))) ELSE f2
    IN  f3


\* the three rules chained with elif: the first rule that triggers ends the analysis
analyze_iam_binding_first_match(resource_name, b, fs) ==
    LET role == b.role
        members == b.members
    IN  IF "allUsers" \in Range(members) \/ "allAuthenticatedUsers" \in Range(members)
        THEN Append(fs, UnauthenticatedFragment)
        ELSE IF Contains(role, ROLE_OWNER) \/ Contains(role, ROLE_EDITOR)
        THEN Append(fs, ExcessiveRoleFragment(role))
        ELSE IF Contains(role, ROLE_VIEWER) /\ Len(members) > BroadMemberLimit
        THEN Append(fs, BroadAccessFragment(role, Len(members)))
        ELSE fs

\* the viewer rule triggering from ten members on
analyze_iam_binding_ten_members(resource_name, b, fs) ==
    LET role == b.role
        members == b.members
        f1 == IF "allUsers" \in Range(members) \/ "allAuthenticatedUsers" \in Range(members)
              THEN Append(fs, UnauthenticatedFragment) ELSE fs
        f2 == IF Contains(role, ROLE_OWNER) \/ Contains(role, ROLE_EDITOR)
              THEN Append(f1, ExcessiveRoleFragment(role)) ELSE f1
        f3 == IF Contains(role, ROLE_VIEWER) /\ Len(members) >= BroadMemberLimit
              THEN Append(f2, BroadAccessFragment(role, Len(members))) ELSE f2
    IN  f3

analyze_iam_binding(resource_name, b, fs) ==
    LET role == b.role
        members == b.members
        f1 == IF "allUsers" \in Range(members) \/ "allAuthenticatedUsers" \in Range(members)
              THEN Append(fs, UnauthenticatedFragment) ELSE fs
        f2 == IF Contains(role, ROLE_OWNER) \/ Contains(role, ROLE_EDITOR)
              THEN Append(f1, ExcessiveRoleFragment(role)) ELSE f1
        f3 == IF Contains(role, ROLE_VIEWER) /\ Len(members) > BroadMemberLimit
              THEN Append(f2, BroadAccessFragment(role, Len(members))) ELSE f2
    IN  f3


-----------------------------------------------------------------------------
(* scan_cloud_run_service *)

\* any(keyword in var_name for keyword in [...])
IsSecretLike(var_name) ==
    \E k \in DOMAIN SecretKeywords : Contains(var_name, SecretKeywords[k])

\* for binding in policy.bindings: analyze_iam_binding(service_name, binding, findings)
RECURSIVE AnalyzeBindings(_, _, _)
AnalyzeBindings(service_name, bindings, fs) ==
    IF bindings = <<>> THEN fs
    ELSE AnalyzeBindings(service_name, Tail(bindings),
                         analyze_iam_binding(service_name, Head(bindings), fs))

\* for env_var in container.env: ...
CheckEnv_case_sensitive(env, fs) ==
    LET hit == SelectSeq(env, LAMBDA v : IsSecretLike(v.name))
    IN  fs \o [i \in DOMAIN hit |-> SecretEnvFragment(hit[i].name)]

RECURSIVE CheckEnv(_, _)
CheckEnv(env, fs) ==
    IF env = <<>> THEN fs
    ELSE LET var_name == Lower(Head(env).name)
         IN  CheckEnv(Tail(env),
                      IF IsSecretLike(var_name)
                      THEN Append(fs, SecretEnvFragment(var_name)) ELSE fs)

\* for container in service.template.containers: if container.env: ...
RECURSIVE CheckContainers(_, _)
CheckContainers(containers, fs) ==
    IF containers = <<>> THEN fs
    ELSE CheckContainers(Tail(containers), CheckEnv(Head(containers).env, fs))


\* the VPC connector check reporting a configured connector as well
CheckVpc_pass_fragment(svc, fs) ==
    IF svc.vpc_access
    THEN Append(fs, Fragment("PASS", <<"Service has a VPC connector configured">>, "", 0))
    ELSE Append(fs, NoVpcFragment)

\* the VPC connector check
CheckVpc(svc, fs) ==
    IF svc.vpc_access THEN fs ELSE Append(fs, NoVpcFragment)

CheckTimeout_inclusive(svc, fs) ==
    IF svc.timeout # <<>> /\ svc.timeout[1] >= LongTimeoutSeconds
    THEN Append(fs, LongTimeoutFragment(svc.timeout[1])) ELSE fs

\* the timeout check: an unset (or zero) timeout is falsy and is skipped
CheckTimeout(svc, fs) ==
    IF svc.timeout # <<>> /\ svc.timeout[1] # 0
    THEN LET timeout_seconds == svc.timeout[1]
         IN  IF timeout_seconds > LongTimeoutSeconds
             THEN Append(fs, LongTimeoutFragment(timeout_seconds)) ELSE fs
    ELSE fs

\* The outcomes of the two calls to the Cloud Run API that precede the rules.
FetchOutcomes == {"ok", "get_service_raises", "get_iam_policy_raises"}

\* the environment check run before the VPC and timeout checks
scan_cloud_run_service_env_first(fetch, pol, svc) ==
    IF fetch # "ok" THEN <<>>
    ELSE CheckTimeout(svc,
             CheckVpc(svc,
                 CheckContainers(svc.containers,
                     AnalyzeBindings("svc", pol.bindings, <<>>))))

\* the findings list shared by successive calls instead of created per call
scan_cloud_run_service_shared_list(fetch, pol, svc) ==
    LET fresh == IF scans = <<>> THEN <<>> ELSE scans[Len(scans)].findings
    IN  IF fetch # "ok" THEN fresh
        ELSE CheckContainers(svc.containers,
                 CheckTimeout(svc,
                     CheckVpc(svc,
                         AnalyzeBindings("svc", pol.bindings, fresh))))

\* findings = [] ... return findings; the except branch returns the list as it
\* stands, which is empty when one of the two fetches raised.
scan_cloud_run_service(fetch, pol, svc) ==
    LET fresh == <<>>
    IN  IF fetch # "ok" THEN fresh
        ELSE CheckContainers(svc.containers,
                 CheckTimeout(svc,
                     CheckVpc(svc,
                         AnalyzeBindings("svc", pol.bindings, fresh))))

-----------------------------------------------------------------------------
(* Inputs *)

UserNames ==
    <<"user:a@x.com", "user:b@x.com", "user:c@x.com", "user:d@x.com", "user:e@x.com",
      "user:f@x.com", "user:g@x.com", "user:h@x.com", "user:i@x.com", "user:j@x.com",
      "user:k@x.com", "user:l@x.com", "user:m@x.com", "user:n@x.com", "user:o@x.com">>

Sentinels == {"allUsers", "allAuthenticatedUsers"}

SentinelLists ==
    {<<>>, <<"allUsers">>, <<"allAuthenticatedUsers">>,
     <<"allUsers", "allAuthenticatedUsers">>, <<"allusers">>}

\* sentinels before, after, or without ordinary principals
MemberLists ==
    { s \o SubSeq(UserNames, 1, n) : s \in SentinelLists, n \in 0..MaxMembers }
    \cup { SubSeq(UserNames, 1, n) \o s : s \in SentinelLists, n \in 0..MaxMembers }

Roles == {ROLE_OWNER, ROLE_EDITOR, ROLE_VIEWER, ROLE_INVOKER, ROLE_BARE_OWNER, ROLE_EMPTY}

Bindings == { [role |-> r, members |-> m] : r \in Roles, m \in MemberLists }

\* what the findings list may already hold when a binding is analysed
PriorFindings == {<<>>, <<UnauthenticatedFragment>>, <<NoVpcFragment>>}

OwnerBinding == [role |-> ROLE_OWNER, members |-> <<"user:a@x.com">>]

\* the bindings of the policies that whole scans run on
ScanBindings ==
    { OwnerBinding, [role |-> ROLE_INVOKER, members |-> <<"allUsers">>] }

SeqsUpTo(S, n) == UNION { [1..k -> S] : k \in 0..n }

Policies == { [bindings |-> bs] : bs \in SeqsUpTo(ScanBindings, MaxBindings) }

EnvNames == {ENV_DB_PASSWORD, ENV_API_KEY_MIXED, ENV_API_KEY_LOWER, ENV_PORT, ENV_TOKEN_SECRET}

EnvVar(n) == [name |-> n, value |-> "x"]

EnvLists == SeqsUpTo({ EnvVar(n) : n \in EnvNames }, MaxEnv)

\* no container, one container holding all variables, or the variables split
\* over two containers
ContainerLists ==
    {<<>>} \cup { <<[env |-> e]>> : e \in EnvLists }
    \cup { <<[env |-> SubSeq(e, 1, 1)], [env |-> SubSeq(e, 2, Len(e))]>> :
             e \in { x \in EnvLists : Len(x) >= 2 } }

Timeouts == {<<>>, <<120>>, <<LongTimeoutSeconds>>, <<LongTimeoutSeconds + 1>>}

Services ==
    { [vpc_access |-> v, timeout |-> t, containers |-> c] :
        v \in BOOLEAN, t \in Timeouts, c \in ContainerLists }

NoBinding == [role |-> ROLE_EMPTY, members |-> <<>>]
NoPolicy == [bindings |-> <<>>]
NoService == [vpc_access |-> TRUE, timeout |-> <<>>, containers |-> <<>>]

-----------------------------------------------------------------------------
(* Synthesis layer: Python values *)

\* The result of evaluating a block of Python: a value, or a raised exception.
Ret(v) == [exc |-> FALSE, val |-> v]
Raise(e) == [exc |-> TRUE, val |-> e]

\* Python: d.get(k, default)
Get(d, k, default) == IF k \in DOMAIN d THEN d[k] ELSE default

SeverityKeys == {"CRITICAL", "HIGH", "MEDIUM", "LOW"}

\* A text is a sequence of tokens: a markdown fence marker ("```json\n",
\* "```\n", "```"), white space, prose, or one JSON document.  A JSON document
\* decodes to a dict (type "object", obj its keys and values) or to a value
\* that is no dict (type "array").
NoJson == [type |-> "none", obj |-> <<>>]
Tok(kind) == [kind |-> kind, value |-> NoJson]
JsonTok(type, obj) == [kind |-> "json", value |-> [type |-> type, obj |-> obj]]

FenceKinds == {"fence_json", "fence_nl", "fence"}

\* .replace("```json\n", "").replace("```\n", "").replace("```", "")
StripFences(text) == SelectSeq(text, LAMBDA t : t.kind \notin FenceKinds)

\* .strip()
RECURSIVE LStrip(_)
LStrip(text) ==
    IF text # <<>> /\ Head(text).kind = "ws" THEN LStrip(Tail(text)) ELSE text

RECURSIVE RStrip(_)
RStrip(text) ==
    IF text # <<>> /\ text[Len(text)].kind = "ws"
    THEN RStrip(SubSeq(text, 1, Len(text) - 1)) ELSE text

Strip(text) == RStrip(LStrip(text))

\* json.loads: white space around the document is accepted; anything but
\* exactly one JSON document raises JSONDecodeError
json_loads(text) ==
    LET body == Strip(text)
    IN  IF Len(body) = 1 /\ body[1].kind = "json"
        THEN Ret(body[1].value) ELSE Raise("JSONDecodeError")

\* ai_data.get(...) on the decoded value: a value that is no dict has no get
AsDict(value) ==
    IF value.type = "object" THEN Ret(value.obj) ELSE Raise("AttributeError")

-----------------------------------------------------------------------------
(* What the backend's generate_content may do *)

NotCalled == [kind |-> "not_called", text |-> <<>>]
BackendRaises == [kind |-> "raise", text |-> <<>>]
BackendNone == [kind |-> "none", text |-> <<>>]       \* no response, or one without text
TextResponse(text) == [kind |-> "text", text |-> text]

ExplanationJson ==
    [explanation |-> "AI: the service can be invoked by anyone",
     blast_radius |-> "AI: every caller on the internet",
     risk_assessment |-> "AI: critical business risk",
     priority_score |-> 90,
     business_impact |-> "High",
     remediation_urgency |-> "Immediate",
     attack_vector |-> "AI: anonymous invocation",
     compliance_impact |-> "AI: SOC2"]

PartialExplanationJson == [explanation |-> "AI: the service can be invoked by anyone"]

SummaryJson ==
    [executive_summary |-> "AI: summary",
     risk_overview |-> "AI: risk overview",
     top_concerns |-> <<"AI: concern">>,
     compliance_status |-> "AI: compliance",
     remediation_roadmap |-> "AI: roadmap",
     business_impact |-> "High",
     recommendations |-> <<"AI: recommendation">>]

ProposalJson ==
    [summary |-> "AI: proposal",
     terraform_code |-> "AI: terraform",
     implementation_steps |-> <<"AI: step">>,
     testing_recommendations |-> <<"AI: test">>]

EmptyJson == [k \in {} |-> ""]

ProseText == <<Tok("prose")>>
FencedProseText == <<Tok("fence_nl"), Tok("prose"), Tok("ws"), Tok("fence")>>
BlankText == <<Tok("ws")>>
ProseThenJsonText == <<Tok("prose"), Tok("ws"), JsonTok("object", ExplanationJson)>>

\* texts of the pool that hold no JSON document on their own, fences removed or not
NonJsonTexts == {ProseText, FencedProseText, BlankText, ProseThenJsonText}

Fenced(doc) == <<Tok("fence_json"), doc, Tok("ws"), Tok("fence")>>

JsonTexts ==
    { <<JsonTok("object", ExplanationJson)>>,
      Fenced(JsonTok("object", ExplanationJson)),
      <<JsonTok("object", PartialExplanationJson)>>,
      <<JsonTok("object", EmptyJson)>>,
      <<JsonTok("array", <<>>)>>,
      <<Tok("ws"), JsonTok("object", SummaryJson), Tok("ws")>>,
      Fenced(JsonTok("object", SummaryJson)),
      <<JsonTok("object", ProposalJson)>> }

Responses ==
    {BackendRaises, BackendNone, TextResponse(<<>>)}
    \cup { TextResponse(t) : t \in NonJsonTexts \cup JsonTexts }

-----------------------------------------------------------------------------
(* Findings handed to the synthesis layer: the fields of class Finding that  *)
(* the operations read (the prompt alone reads the others)                   *)

Finding(sev, rtype, rname, issue, score) ==
    [severity |-> sev, resource_type |-> rtype, resource_name |-> rname,
     issue_description |-> issue, risk_score |-> score]

ResourceTypes == {"Cloud Run Service", "Service Account", "Storage Bucket"}

\* risk_score: Optional[int]
RiskScores == {<<>>, <<0>>, <<85>>}

SynthFindings ==
    { Finding(sev, rt, "payments-api", "Service allows unauthenticated access", rs) :
        sev \in SeverityKeys, rt \in ResourceTypes, rs \in RiskScores }

FindingOf(sev) ==
    Finding(sev, "Cloud Run Service", "payments-api", "Service allows unauthenticated access", <<>>)

ListFindings == { FindingOf(sev) : sev \in SeverityKeys }

\* the lists handed to summary and proposal calls next to explanation calls
FindingLists == SeqsUpTo({FindingOf("CRITICAL"), FindingOf("LOW")}, MaxList)

LongLists == SeqsUpTo(ListFindings, MaxFindings)

-----------------------------------------------------------------------------
(* AIService.generate_explanation *)

SeverityPriority(severity) ==
    CASE severity = "CRITICAL" -> 95
      [] severity = "HIGH" -> 75
      [] severity = "MEDIUM" -> 50
      [] severity = "LOW" -> 25
      [] OTHER -> 50

\* finding.risk_score if finding.risk_score else {...}.get(severity, 50):
\* a risk_score of None or 0 is falsy
PriorityDefault(f) ==
    IF f.risk_score # <<>> /\ f.risk_score[1] # 0
    THEN f.risk_score[1] ELSE SeverityPriority(f.severity)

CloudRunExplanation(f) ==
    CASE f.severity = "CRITICAL" ->
           <<"This is a critical security vulnerability in your ", f.resource_name, " service. The issue '", f.issue_description, "' means that your service is exposed to significant security risks. This could allow unauthorized access to your application, potentially leading to data breaches, service abuse, or complete system compromise.">>
      [] f.severity = "HIGH" ->
           <<"This is a high-severity security issue in your ", f.resource_name, " service. The problem '", f.issue_description, "' creates substantial security risks that could impact your application's integrity and availability.">>
      [] f.severity = "MEDIUM" ->
           <<"This is a medium-severity security concern in your ", f.resource_name, " service. The issue '", f.issue_description, "' should be addressed to maintain proper security posture.">>
      [] f.severity = "LOW" ->
           <<"This is a low-severity security observation in your ", f.resource_name, " service. The issue '", f.issue_description, "' represents a minor security consideration.">>

ServiceAccountExplanation(f) ==
    CASE f.severity = "CRITICAL" ->
           <<"This is a critical service account configuration issue. The problem '", f.issue_description, "' means your service account has excessive permissions that violate the principle of least privilege. This could allow an attacker to gain full access to your project if the service account credentials are compromised.">>
      [] f.severity = "HIGH" ->
           <<"This is a high-severity service account issue. The problem '", f.issue_description, "' creates significant security risks by granting more permissions than necessary.">>
      [] f.severity = "MEDIUM" ->
           <<"This is a medium-severity service account configuration issue. The problem '", f.issue_description, "' should be reviewed and corrected.">>
      [] f.severity = "LOW" ->
           <<"This is a low-severity service account observation. The issue '", f.issue_description, "' represents a minor configuration consideration.">>

GenericExplanation(f) ==
    <<"This ", f.severity, " severity issue in ", f.resource_type, " requires attention: ", f.issue_description>>

\* explanations.get(resource_type, {}).get(severity, generic)
FallbackExplanationText(f) ==
    IF f.resource_type = "Cloud Run Service" /\ f.severity \in SeverityKeys
    THEN CloudRunExplanation(f)
    ELSE IF f.resource_type = "Service Account" /\ f.severity \in SeverityKeys
    THEN ServiceAccountExplanation(f)
    ELSE GenericExplanation(f)

BlastRadiusText(severity) ==
    CASE severity = "CRITICAL" -> "If exploited, this vulnerability could affect your entire application infrastructure, leading to data breaches, service disruption, and potential compliance violations."
      [] severity = "HIGH" -> "If exploited, this issue could impact multiple services and resources, potentially causing service failures and security incidents."
      [] severity = "MEDIUM" -> "If exploited, this issue could affect specific functionality and may impact service reliability."
      [] severity = "LOW" -> "If exploited, this issue would have minimal impact on your overall system security."
      [] OTHER -> "Impact assessment requires manual review."

RiskAssessmentText(severity) ==
    CASE severity = "CRITICAL" -> "CRITICAL RISK - Immediate action required. This vulnerability poses significant business risk including potential data breaches, regulatory violations, and reputational damage."
      [] severity = "HIGH" -> "HIGH RISK - Urgent attention needed. This issue could lead to service disruptions, security incidents, and operational impact."
      [] severity = "MEDIUM" -> "MEDIUM RISK - Should be addressed in the next maintenance window. This issue may impact service reliability and security posture."
      [] severity = "LOW" -> "LOW RISK - Can be addressed during regular maintenance. This issue represents a minor security consideration."
      [] OTHER -> "Risk level requires manual assessment."

\* a fallback that keeps the priority score of the call before it
generate_fallback_explanation_stale(f) ==
    [ai_explanation |-> FallbackExplanationText(f),
     blast_radius |-> BlastRadiusText(f.severity),
     risk_assessment |-> RiskAssessmentText(f.severity),
     priority_score |-> IF call.op = "explanation" /\ ~call.raised
                        THEN call.result.priority_score ELSE PriorityDefault(f),
     business_impact |-> IF f.severity \in {"CRITICAL", "HIGH"} THEN "High"
                         ELSE IF f.severity = "MEDIUM" THEN "Medium" ELSE "Low",
     remediation_urgency |-> IF f.severity = "CRITICAL" THEN "Immediate"
                             ELSE IF f.severity = "HIGH" THEN "High"
                             ELSE IF f.severity = "MEDIUM" THEN "Medium" ELSE "Low",
     attack_vector |-> "Manual analysis required",
     compliance_impact |-> "Review required",
     ai_model |-> "fallback-analysis",
     ai_powered |-> FALSE]

generate_fallback_explanation(f) ==
    [ai_explanation |-> FallbackExplanationText(f),
     blast_radius |-> BlastRadiusText(f.severity),
     risk_assessment |-> RiskAssessmentText(f.severity),
     priority_score |-> PriorityDefault(f),
     business_impact |-> IF f.severity \in {"CRITICAL", "HIGH"} THEN "High"
                         ELSE IF f.severity = "MEDIUM" THEN "Medium" ELSE "Low",
     remediation_urgency |-> IF f.severity = "CRITICAL" THEN "Immediate"
                             ELSE IF f.severity = "HIGH" THEN "High"
                             ELSE IF f.severity = "MEDIUM" THEN "Medium" ELSE "Low",
     attack_vector |-> "Manual analysis required",
     compliance_impact |-> "Review required",
     ai_model |-> "fallback-analysis",
     ai_powered |-> FALSE]

\* the dict built from ai_data and response.text
ExplanationResult(f, ai_data, text) ==
    [ai_explanation |-> Get(ai_data, "explanation", text),
     blast_radius |-> Get(ai_data, "blast_radius", "Analysis in progress"),
     risk_assessment |-> Get(ai_data, "risk_assessment", "Manual review recommended"),
     priority_score |-> Get(ai_data, "priority_score", PriorityDefault(f)),
     business_impact |-> Get(ai_data, "business_impact", "Medium"),
     remediation_urgency |-> Get(ai_data, "remediation_urgency", "Medium"),
     attack_vector |-> Get(ai_data, "attack_vector", "Manual analysis required"),
     compliance_impact |-> Get(ai_data, "compliance_impact", "Review required"),
     ai_model |-> "gemini-2.0-flash",
     ai_powered |-> TRUE]

\* except json.JSONDecodeError: ai_data = {...}
WrappedExplanation(text) ==
    [explanation |-> text,
     blast_radius |-> "See explanation above",
     risk_assessment |-> "Review the detailed explanation"]

\* the inner try of generate_explanation, answering a JSONDecodeError with the fallback
ExplanationData_fallback_on_parse_error(f, text) ==
    LET parsed == json_loads(Strip(StripFences(text)))
    IN  IF parsed.exc THEN Raise("JSONDecodeError") ELSE AsDict(parsed.val)

\* the inner try of generate_explanation: ai_data, or the exception of a
\* decoded value that is no dict
ExplanationData(f, text) ==
    LET parsed == json_loads(Strip(StripFences(text)))
    IN  IF parsed.exc THEN Ret(WrappedExplanation(text)) ELSE AsDict(parsed.val)


\* the body of the outer try of generate_explanation, treating an answer that
\* lacks an expected key as a failure
ExplanationTry_all_keys_required(f, resp) ==
    IF resp.kind = "raise" THEN Raise("BackendError")
    ELSE IF resp.kind = "none" \/ resp.text = <<>>
    THEN Ret(generate_fallback_explanation(f))
    ELSE LET ai_data == ExplanationData(f, resp.text)
         IN  IF ai_data.exc THEN ai_data
             ELSE IF DOMAIN ExplanationJson \subseteq DOMAIN ai_data.val
             THEN Ret(ExplanationResult(f, ai_data.val, resp.text))
             ELSE Raise("KeyError")

\* the body of the outer try of generate_explanation
ExplanationTry(f, resp) ==
    IF resp.kind = "raise" THEN Raise("BackendError")
    ELSE IF resp.kind = "none" \/ resp.text = <<>>
    THEN Ret(generate_fallback_explanation(f))
    ELSE LET ai_data == ExplanationData(f, resp.text)
         IN  IF ai_data.exc THEN ai_data
             ELSE Ret(ExplanationResult(f, ai_data.val, resp.text))

\* generate_explanation without its outer except
generate_explanation_uncaught(f, resp) ==
    IF ~ai_enabled THEN Ret(generate_fallback_explanation(f))
    ELSE ExplanationTry(f, resp)

generate_explanation(f, resp) ==
    IF ~ai_enabled THEN Ret(generate_fallback_explanation(f))
    ELSE LET r == ExplanationTry(f, resp)
         IN  IF r.exc THEN Ret(generate_fallback_explanation(f)) ELSE r

-----------------------------------------------------------------------------
(* AIService.generate_scan_summary *)

\* severity_counts = {...}; for finding in findings: severity_counts[finding.severity] += 1
\* (a severity that is no key of the dict raises KeyError)
CountSeverities(fs) ==
    IF \E i \in DOMAIN fs : fs[i].severity \notin SeverityKeys
    THEN Raise("KeyError")
    ELSE Ret([sev \in SeverityKeys |->
                 Cardinality({ i \in DOMAIN fs : fs[i].severity = sev })])

FallbackSummary(fs, severity_counts, high, medium) ==
    LET total_critical_high == severity_counts["CRITICAL"] + severity_counts["HIGH"]
    IN  [executive_summary |-> <<"Security scan completed with ", Len(fs), " findings. ",
                                 total_critical_high,
                                 " high-priority issues require immediate attention.">>,
         risk_overview |-> <<"Overall risk level: ",
                             IF high THEN "HIGH" ELSE IF medium THEN "MEDIUM" ELSE "LOW">>,
         top_concerns |-> << <<severity_counts["CRITICAL"], " critical issues">>,
                             <<severity_counts["HIGH"], " high-severity issues">> >>,
         compliance_status |-> "Manual compliance review required",
         remediation_roadmap |-> "Phase 1: Critical issues, Phase 2: High issues, Phase 3: Medium/Low issues",
         business_impact |-> IF high THEN "High" ELSE IF medium THEN "Medium" ELSE "Low",
         recommendations |-> <<"Address critical issues immediately",
                               "Implement security best practices",
                               "Regular security scanning">>,
         severity_counts |-> severity_counts,
         ai_model |-> "fallback-analysis",
         ai_powered |-> FALSE]

\* the HIGH threshold taken inclusively
generate_fallback_summary_inclusive(fs) ==
    LET counts == CountSeverities(fs)
    IN  IF counts.exc THEN counts
        ELSE LET n == counts.val["CRITICAL"] + counts.val["HIGH"]
             IN  Ret(FallbackSummary(fs, counts.val, n >= 5, n > 0))

generate_fallback_summary(fs) ==
    LET counts == CountSeverities(fs)
    IN  IF counts.exc THEN counts
        ELSE LET n == counts.val["CRITICAL"] + counts.val["HIGH"]
             IN  Ret(FallbackSummary(fs, counts.val, n > 5, n > 0))

WrappedSummary(text) ==
    [executive_summary |-> text,
     risk_overview |-> "Manual review required",
     top_concerns |-> <<"Review all findings manually">>,
     compliance_status |-> "Assessment required",
     remediation_roadmap |-> "Manual planning needed",
     business_impact |-> "Medium",
     recommendations |-> <<"Conduct manual security review">>]


\* the result dict with the counts of the backend's answer preferred
SummaryResult_counts_from_backend(ai_data, severity_counts) ==
    [executive_summary |-> Get(ai_data, "executive_summary", "Summary generation failed"),
     risk_overview |-> Get(ai_data, "risk_overview", "Manual assessment required"),
     top_concerns |-> Get(ai_data, "top_concerns", <<>>),
     compliance_status |-> Get(ai_data, "compliance_status", "Review required"),
     remediation_roadmap |-> Get(ai_data, "remediation_roadmap", "Manual planning needed"),
     business_impact |-> Get(ai_data, "business_impact", "Medium"),
     recommendations |-> Get(ai_data, "recommendations", <<>>),
     severity_counts |-> Get(ai_data, "severity_counts", severity_counts),
     ai_model |-> "gemini-2.0-flash",
     ai_powered |-> TRUE]

SummaryResult(ai_data, severity_counts) ==
    [executive_summary |-> Get(ai_data, "executive_summary", "Summary generation failed"),
     risk_overview |-> Get(ai_data, "risk_overview", "Manual assessment required"),
     top_concerns |-> Get(ai_data, "top_concerns", <<>>),
     compliance_status |-> Get(ai_data, "compliance_status", "Review required"),
     remediation_roadmap |-> Get(ai_data, "remediation_roadmap", "Manual planning needed"),
     business_impact |-> Get(ai_data, "business_impact", "Medium"),
     recommendations |-> Get(ai_data, "recommendations", <<>>),
     severity_counts |-> severity_counts,
     ai_model |-> "gemini-2.0-flash",
     ai_powered |-> TRUE]

\* the body of the try of generate_scan_summary; the text is parsed as it is,
\* fence markers included
SummaryTry(fs, resp) ==
    LET counts == CountSeverities(fs)
    IN  IF counts.exc THEN counts
        ELSE IF resp.kind = "raise" THEN Raise("BackendError")
        ELSE IF resp.kind = "none" \/ resp.text = <<>> THEN generate_fallback_summary(fs)
        ELSE LET parsed == json_loads(resp.text)
                 ai_data == IF parsed.exc THEN Ret(WrappedSummary(resp.text))
                            ELSE AsDict(parsed.val)
             IN  IF ai_data.exc THEN ai_data
                 ELSE Ret(SummaryResult(ai_data.val, counts.val))

generate_scan_summary(fs, resp) ==
    IF ~ai_enabled THEN generate_fallback_summary(fs)
    ELSE LET r == SummaryTry(fs, resp)
         IN  IF r.exc THEN generate_fallback_summary(fs) ELSE r

-----------------------------------------------------------------------------
(* AIService.generate_fix_proposal *)

DisabledProposal ==
    [ai_proposal |-> "AI features disabled - API key not configured",
     terraform_code |-> "# AI-generated fixes unavailable",
     implementation_steps |-> <<"Manual review required">>]

\* the except branch: the proposal text carries str(e)
FailedProposal(e) ==
    [ai_proposal |-> <<"AI analysis temporarily unavailable: ", e>>,
     terraform_code |-> "# Manual review required",
     implementation_steps |-> <<"Review findings manually">>,
     ai_powered |-> FALSE]

WrappedProposal(text) ==
    [summary |-> text,
     terraform_code |-> "# Generated fixes - see summary above",
     implementation_steps |-> <<"Review the detailed summary">>,
     testing_recommendations |-> <<"Test all changes in development first">>]

ProposalResult(ai_data, text) ==
    [ai_proposal |-> Get(ai_data, "summary", text),
     terraform_code |-> Get(ai_data, "terraform_code", "# AI-generated fixes"),
     implementation_steps |-> Get(ai_data, "implementation_steps", <<"Manual review required">>),
     testing_recommendations |-> Get(ai_data, "testing_recommendations", <<"Test thoroughly">>),
     ai_model |-> "gemini-pro",
     ai_powered |-> TRUE]

\* the body of the outer try of generate_fix_proposal: response.text is read
\* without a check, so a response without text raises AttributeError, and an
\* empty text fails to parse like any other text that is no JSON
ProposalTry(fs, resp) ==
    IF resp.kind = "raise" THEN Raise("BackendError")
    ELSE IF resp.kind = "none" THEN Raise("AttributeError")
    ELSE LET parsed == json_loads(Strip(StripFences(resp.text)))
             ai_data == IF parsed.exc THEN Ret(WrappedProposal(resp.text))
                        ELSE AsDict(parsed.val)
         IN  IF ai_data.exc THEN ai_data
             ELSE Ret(ProposalResult(ai_data.val, resp.text))


\* generate_fix_proposal without its outer except
generate_fix_proposal_uncaught(fs, resp) ==
    IF ~ai_enabled THEN Ret(DisabledProposal) ELSE ProposalTry(fs, resp)

generate_fix_proposal(fs, resp) ==
    IF ~ai_enabled THEN Ret(DisabledProposal)
    ELSE LET r == ProposalTry(fs, resp)
         IN  IF r.exc THEN Ret(FailedProposal(r.val)) ELSE r

-----------------------------------------------------------------------------
(* Synthesis calls *)

NoCall == [op |-> "none"]

\* the first explanation call made with the backend disabled, and whether a
\* call other than an explanation of the same finding followed it
FirstOf(c) == [op |-> c.op, input |-> c.input, result |-> c.result, followed |-> FALSE]

Followed(fst) == IF fst.op = "none" THEN fst ELSE [fst EXCEPT !.followed = TRUE]

NoCollab == [kind |-> "none"]
NoRequest == [kind |-> "none"]
NoAttempt == [pc |-> "idle"]
NoJob == [state |-> "none"]

PipeIdle ==
    /\ attempt = NoAttempt
    /\ collab = NoCollab
    /\ request = NoRequest
    /\ store = <<>>
    /\ message = "none"
    /\ clock = 0
    /\ bucket = <<>>
    /\ job = NoJob

SynthIdle ==
    /\ ai_enabled = FALSE
    /\ backend = NotCalled
    /\ stored = <<>>
    /\ call = NoCall
    /\ first = NoCall

\* what one call of a synthesis operation leaves behind; the backend is
\* called only when ai_enabled
CallRecord(op, input, r) ==
    [op |-> op, input |-> input,
     response |-> IF ai_enabled THEN backend ELSE NotCalled,
     raised |-> r.exc, result |-> r.val]

RuleIdle ==
    /\ binding = [role |-> <<>>, members |-> <<>>]
    /\ findings0 = <<>>
    /\ findings = <<>>
    /\ bpc = "idle"
    /\ policy = [bindings |-> <<>>]
    /\ service = [vpc_access |-> TRUE, timeout |-> <<>>, containers |-> <<>>]
    /\ scans = <<>>

\* AIService(model): ai_enabled is set once, by the constructor; without a
\* model there is no backend to call
InitSynth ==
    /\ \/ ai_enabled = FALSE /\ backend = NotCalled
       \/ ai_enabled = TRUE /\ backend \in Responses
    /\ stored = <<>>
    /\ call = NoCall
    /\ first = NoCall
    /\ RuleIdle
    /\ PipeIdle

Explain(f) ==
    /\ call' = CallRecord("explanation", f, generate_explanation(f, backend))
    /\ first' = IF ai_enabled THEN first
                ELSE IF first.op = "none" THEN FirstOf(call')
                ELSE IF first.input # f THEN Followed(first)
                ELSE first
    /\ UNCHANGED <<ai_enabled, backend, stored, ruleVars, pipeVars>>

Summarize(fs) ==
    /\ call' = CallRecord("summary", fs, generate_scan_summary(fs, backend))
    /\ first' = Followed(first)
    /\ UNCHANGED <<ai_enabled, backend, stored, ruleVars, pipeVars>>

Propose(fs) ==
    /\ call' = CallRecord("proposal", fs, generate_fix_proposal(fs, backend))
    /\ first' = Followed(first)
    /\ UNCHANGED <<ai_enabled, backend, stored, ruleVars, pipeVars>>

NextSynth ==
    \/ \E f \in SynthFindings : Explain(f)
    \/ \E fs \in FindingLists : Summarize(fs)
    \/ \E fs \in FindingLists : Propose(fs)

SpecSynth == InitSynth /\ [][NextSynth]_vars

\* an answer that also carries counts of its own
SummaryJsonWithCounts ==
    [executive_summary |-> "AI: summary",
     risk_overview |-> "AI: risk overview",
     severity_counts |-> [sev \in SeverityKeys |-> 9]]

\* The backend behaviours a summary of a job's findings is run against.
SummaryProbes ==
    {BackendRaises, TextResponse(ProseText),
     TextResponse(<<JsonTok("object", SummaryJsonWithCounts)>>)}

InitSummary ==
    /\ \/ ai_enabled = FALSE /\ backend = NotCalled
       \/ ai_enabled = TRUE /\ backend \in SummaryProbes
    /\ stored \in LongLists
    /\ call = NoCall
    /\ first = NoCall
    /\ RuleIdle
    /\ PipeIdle

\* the summary of the job's findings
SummarizeStored == call.op = "none" /\ Summarize(stored)

NextSummary == SummarizeStored

SpecSummary == InitSummary /\ [][NextSummary]_vars

-----------------------------------------------------------------------------
(* SpecBinding: analyze_iam_binding applied to one binding *)

InitBinding ==
    /\ binding \in Bindings
    /\ findings0 \in PriorFindings
    /\ findings = findings0
    /\ bpc = "call"
    /\ policy = NoPolicy
    /\ service = NoService
    /\ scans = <<>>
    /\ SynthIdle
    /\ PipeIdle

AnalyzeBinding ==
    /\ bpc = "call"
    /\ findings' = analyze_iam_binding("svc", binding, findings)
    /\ bpc' = "done"
    /\ UNCHANGED <<binding, findings0, policy, service, scans, synthVars, pipeVars>>

NextBinding == AnalyzeBinding

SpecBinding == InitBinding /\ [][NextBinding]_vars

-----------------------------------------------------------------------------
(* Spec: scans of one service (its policy and template do not change) *)

Init ==
    /\ policy \in Policies
    /\ service \in Services
    /\ scans = <<>>
    /\ binding = NoBinding
    /\ findings0 = <<>>
    /\ findings = <<>>
    /\ bpc = "idle"
    /\ SynthIdle
    /\ PipeIdle

\* one call of scan_cloud_run_service; a service is scanned at most twice
Scan(fetch) ==
    /\ Len(scans) < 2
    /\ scans' = Append(scans, [fetch |-> fetch,
                               findings |-> scan_cloud_run_service(fetch, policy, service)])
    /\ UNCHANGED <<policy, service, binding, findings0, findings, bpc, synthVars, pipeVars>>

Next == \E fetch \in FetchOutcomes : Scan(fetch)

Spec == Init /\ [][Next]_vars


-----------------------------------------------------------------------------
(* Claims about the rule engine *)

\* the positions of fs holding a fragment of severity sev and risk score score
Of(fs, sev, score) ==
    { i \in DOMAIN fs : fs[i].severity = sev /\ fs[i].risk_score = score }

\* the positions of fs holding a fragment of severity sev
OfSeverity(fs, sev) == { i \in DOMAIN fs : fs[i].severity = sev }

\* what analyze_iam_binding appended to the list it was given
Appended == SubSeq(findings, Len(findings0) + 1, Len(findings))

\* the calls of scan_cloud_run_service in which both fetches succeeded
OkScans == { i \in DOMAIN scans : scans[i].fetch = "ok" }

\* C1: analyze_iam_binding keeps what the list held and appends exactly one
\* CRITICAL fragment, of risk score 95, when the members contain allUsers or
\* allAuthenticatedUsers (or both), whatever the role; it appends no CRITICAL
\* fragment when the members contain neither.
C1_PublicInvocation ==
    bpc = "done" =>
        /\ Len(findings) >= Len(findings0)
        /\ SubSeq(findings, 1, Len(findings0)) = findings0
        /\ IF \E m \in Range(binding.members) : m = "allUsers" \/ m = "allAuthenticatedUsers"
           THEN /\ Cardinality(OfSeverity(Appended, "CRITICAL")) = 1
                /\ Cardinality(Of(Appended, "CRITICAL", 95)) = 1
           ELSE OfSeverity(Appended, "CRITICAL") = {}

\* C1 witness: a viewer binding holding both sentinels was analysed and one
\* CRITICAL fragment was appended.
C1_Witness ==
    /\ bpc = "done"
    /\ binding.role = ROLE_VIEWER
    /\ binding.members = <<"allUsers", "allAuthenticatedUsers">>
    /\ Cardinality(Of(Appended, "CRITICAL", 95)) = 1

\* the service of the end-to-end scenario
ScenarioService ==
    [vpc_access |-> FALSE, timeout |-> <<120>>,
     containers |-> <<[env |-> <<EnvVar(ENV_DB_PASSWORD)>>]>>]

IsScenario == policy = [bindings |-> <<OwnerBinding>>] /\ service = ScenarioService

\* severity, risk score and leading issue text of each fragment, in order
Outline(fs) == [i \in DOMAIN fs |-> <<fs[i].severity, fs[i].risk_score, fs[i].issue[1]>>]

\* C2: for the single binding {roles/owner, one ordinary user}, no VPC
\* connector, timeout 120 s and one variable DB_PASSWORD the scan returns
\* exactly HIGH 85 (excessive role), MEDIUM 55 (no VPC connector), HIGH 80
\* (sensitive environment variable), in this order.
C2_Scenario ==
    IsScenario =>
        \A i \in OkScans :
            Outline(scans[i].findings) =
                << <<"HIGH", 85, "Service has ">>,
                   <<"MEDIUM", 55, "Service has no VPC connector configured">>,
                   <<"HIGH", 80, "Service exposes sensitive environment variable: ">> >>

\* C2 witness: the scenario was scanned and three fragments came back.
C2_Witness ==
    IsScenario /\ \E i \in OkScans : Len(scans[i].findings) = 3

\* every declared environment variable of the service, over all containers
RECURSIVE AllEnv(_)
AllEnv(containers) ==
    IF containers = <<>> THEN <<>> ELSE Head(containers).env \o AllEnv(Tail(containers))

\* The names of EnvNames whose lower-cased form contains key, secret, token,
\* password or credential: DB_PASSWORD, Api_Key, api_key, TOKEN_SECRET; not PORT.
ExpectedSecretNames ==
    {ENV_DB_PASSWORD, ENV_API_KEY_MIXED, ENV_API_KEY_LOWER, ENV_TOKEN_SECRET}

ExpectedSecretCount(svc) ==
    LET env == AllEnv(svc.containers)
    IN  Cardinality({ i \in DOMAIN env : env[i].name \in ExpectedSecretNames })

\* C3: the number of HIGH/80 fragments of a scan equals the number of declared
\* variables (over all containers) whose lower-cased name contains one of the
\* five keywords; a name matching several keywords counts once, and upper,
\* lower and mixed case spellings all match.
C3_SecretEnvCount ==
    \A i \in OkScans :
        Cardinality(Of(scans[i].findings, "HIGH", 80)) = ExpectedSecretCount(service)

\* C3 witness: TOKEN_SECRET (two keywords) and Api_Key (mixed case) in two
\* containers were scanned and gave two fragments.
C3_Witness ==
    /\ service.containers = <<[env |-> <<EnvVar(ENV_TOKEN_SECRET)>>],
                              [env |-> <<EnvVar(ENV_API_KEY_MIXED)>>]>>
    /\ \E i \in OkScans : Cardinality(Of(scans[i].findings, "HIGH", 80)) = 2

\* C4: a scan emits exactly one MEDIUM/50 fragment when the timeout is above
\* 300 seconds and none when it is 300 or less, or not set.
C4_Timeout ==
    \A i \in OkScans :
        Cardinality(Of(scans[i].findings, "MEDIUM", 50)) =
            IF service.timeout # <<>> /\ service.timeout[1] > 300 THEN 1 ELSE 0

\* C4 witness: a service with a timeout of 301 seconds was scanned and one
\* MEDIUM/50 fragment came back.
C4_Witness ==
    /\ service.timeout = <<301>>
    /\ \E i \in OkScans : Cardinality(Of(scans[i].findings, "MEDIUM", 50)) = 1

-----------------------------------------------------------------------------
(* Claims about the synthesis layer *)

ExplanationFields ==
    {"ai_explanation", "blast_radius", "risk_assessment", "priority_score",
     "business_impact", "remediation_urgency", "attack_vector", "compliance_impact",
     "ai_model", "ai_powered"}

SummaryFields ==
    {"executive_summary", "risk_overview", "top_concerns", "compliance_status",
     "remediation_roadmap", "business_impact", "recommendations", "severity_counts",
     "ai_model", "ai_powered"}

ProposalFields == {"ai_proposal", "terraform_code", "implementation_steps"}

\* the backend raised, returned nothing or an empty text, or a text that is no JSON
Unhealthy(resp) ==
    \/ resp.kind \in {"raise", "none"}
    \/ resp.kind = "text" /\ resp.text \in NonJsonTexts \cup {<<>>}

WellFormed(c) ==
    CASE c.op = "explanation" -> DOMAIN c.result = ExplanationFields
      [] c.op = "summary" -> DOMAIN c.result = SummaryFields
      [] c.op = "proposal" -> ProposalFields \subseteq DOMAIN c.result

\* C5: whichever of the three operations is called, when the backend raises,
\* returns no text or an empty text, or returns text that is no JSON, the
\* operation returns a result holding the fields of its kind and raises nothing.
C5_NeverThrows ==
    (call.op # "none" /\ ai_enabled /\ Unhealthy(call.response)) =>
        (~call.raised /\ WellFormed(call))

\* C5 witness: the backend raised inside generate_explanation and the call
\* returned the fallback explanation.
C5_Witness ==
    /\ call.op = "explanation"
    /\ call.response.kind = "raise"
    /\ ~call.raised
    /\ call.result.ai_model = "fallback-analysis"

\* the result did not come from a text the backend returned in this call
NotFromBackend(c) ==
    c.response.kind \in {"not_called", "raise", "none"} \/ c.response.text = <<>>

\* C6: every result of the three operations carries ai_powered and a model
\* identifier; a result that did not come from a backend response has
\* ai_powered = false and the model identifier "fallback-analysis"; a result
\* with ai_powered = true was built from text the backend returned in the call.
C6_TaggedResults ==
    (call.op # "none" /\ ~call.raised) =>
        /\ {"ai_powered", "ai_model"} \subseteq DOMAIN call.result
        /\ NotFromBackend(call) =>
              (call.result.ai_powered = FALSE /\ call.result.ai_model = "fallback-analysis")
        /\ call.result.ai_powered =>
              (call.response.kind = "text" /\ call.response.text # <<>>)

\* the number of CRITICAL and HIGH findings of a list
CriticalAndHigh(fs) ==
    Cardinality({ i \in DOMAIN fs : fs[i].severity \in {"CRITICAL", "HIGH"} })

\* C7: the fallback summary reports HIGH for more than five CRITICAL or HIGH
\* findings, MEDIUM for one to five, LOW for none; business_impact follows
\* the same split.
C7_FallbackRisk ==
    (call.op = "summary" /\ ~call.raised /\ ~call.result.ai_powered) =>
        LET n == CriticalAndHigh(call.input)
        IN  /\ call.result.risk_overview =
                 <<"Overall risk level: ",
                   IF n > 5 THEN "HIGH" ELSE IF n >= 1 THEN "MEDIUM" ELSE "LOW">>
            /\ call.result.business_impact =
                 IF n > 5 THEN "High" ELSE IF n >= 1 THEN "Medium" ELSE "Low"

\* C7 witness: a fallback summary of exactly five CRITICAL or HIGH findings
\* (and one more finding) reported MEDIUM.
C7_Witness ==
    /\ call.op = "summary"
    /\ ~call.result.ai_powered
    /\ Len(call.input) = 6
    /\ CriticalAndHigh(call.input) = 5
    /\ call.result.risk_overview = <<"Overall risk level: ", "MEDIUM">>

ParseFailure(c) ==
    /\ c.op = "explanation"
    /\ ai_enabled
    /\ c.response.kind = "text"
    /\ c.response.text \in NonJsonTexts

-----------------------------------------------------------------------------
(* generate_explanation on answers that leave keys out: the backend returns  *)
(* the JSON object with any subset of the expected keys, bare or in a fence  *)

ExpectedKeys == DOMAIN ExplanationJson

Keeping(keys) == [k \in keys |-> ExplanationJson[k]]

PartialResponses ==
    { TextResponse(<<JsonTok("object", Keeping(keys))>>) : keys \in SUBSET ExpectedKeys }
    \cup { TextResponse(Fenced(JsonTok("object", Keeping(keys)))) : keys \in SUBSET ExpectedKeys }

InitPartial ==
    /\ ai_enabled = TRUE
    /\ backend \in PartialResponses
    /\ stored = <<>>
    /\ call = NoCall
    /\ first = NoCall
    /\ RuleIdle
    /\ PipeIdle

ExplainPartial == call.op = "none" /\ \E f \in SynthFindings : Explain(f)

NextPartial == ExplainPartial

SpecPartial == InitPartial /\ [][NextPartial]_vars


-----------------------------------------------------------------------------
(* The callers of the fix-proposal operation: POST /propose/{job_id} of      *)
(* main.py and the propose job (propose_job.py), which has its own           *)
(* generate_ai_proposals                                                     *)

\* propose_job.generate_ai_proposals: the stubs and the result dict
JobDisabledProposal ==
    [ai_proposal |-> "AI features disabled - API key not configured",
     terraform_code |-> "# AI-generated fixes unavailable",
     implementation_steps |-> <<"Manual review required">>,
     testing_recommendations |-> <<"Test all changes manually">>,
     ai_powered |-> FALSE]

JobFailedProposal(e) ==
    [ai_proposal |-> <<"AI analysis temporarily unavailable: ", e>>,
     terraform_code |-> "# Manual review required",
     implementation_steps |-> <<"Review findings manually">>,
     testing_recommendations |-> <<"Test manually">>,
     ai_powered |-> FALSE]

JobProposalResult(ai_data, text) ==
    [ai_proposal |-> Get(ai_data, "summary", text),
     terraform_code |-> Get(ai_data, "terraform_code", "# AI-generated fixes"),
     implementation_steps |-> Get(ai_data, "implementation_steps", <<"Manual review required">>),
     testing_recommendations |-> Get(ai_data, "testing_recommendations", <<"Test thoroughly">>),
     ai_model |-> "gemini-model",
     ai_powered |-> TRUE]

\* the body of the try of generate_ai_proposals
JobProposalTry(fs, resp) ==
    IF resp.kind = "raise" THEN Raise("BackendError")
    ELSE IF resp.kind = "none" THEN Raise("AttributeError")
    ELSE LET parsed == json_loads(Strip(StripFences(resp.text)))
             ai_data == IF parsed.exc THEN Ret(WrappedProposal(resp.text))
                        ELSE AsDict(parsed.val)
         IN  IF ai_data.exc THEN ai_data
             ELSE Ret(JobProposalResult(ai_data.val, resp.text))

generate_ai_proposals(fs, resp) ==
    IF ~ai_enabled THEN Ret(JobDisabledProposal)
    ELSE LET r == JobProposalTry(fs, resp)
         IN  IF r.exc THEN Ret(JobFailedProposal(r.val)) ELSE r

\* What the collaborators of a proposal request do: the findings query, the
\* call of the Cloud Run Jobs API, the upload of the report.
ProposeCollabs ==
    [kind : {"propose"}, query : {"ok", "raises"}, job_api : {"ok", "fails"},
     bucket : {"ok", "raises"}]

NoProposals == [k \in {} |-> ""]

Outcome(kind, failed, generated, proposals) ==
    [kind |-> kind, failed |-> failed, generated |-> generated, ai_proposals |-> proposals]

\* POST /propose/{job_id}: findings query, generate_fix_proposal, job trigger;
\* any exception becomes an HTTP 500 (a failure of the signed URL is caught)
propose_fixes(fs, resp, c) ==
    IF c.query = "raises" THEN Outcome("POST /propose", TRUE, FALSE, NoProposals)
    ELSE LET ai_proposals == generate_fix_proposal(fs, resp)
         IN  IF ai_proposals.exc THEN Outcome("POST /propose", TRUE, FALSE, NoProposals)
             ELSE Outcome("POST /propose", c.job_api # "ok", TRUE, ai_proposals.val)

\* propose_job.main: findings query, generate_ai_proposals, report, upload;
\* a job without findings returns early, a failed upload is logged only
propose_job_main(fs, resp, c) ==
    IF c.query = "raises" THEN Outcome("propose job", TRUE, FALSE, NoProposals)
    ELSE IF fs = <<>> THEN Outcome("propose job", FALSE, FALSE, NoProposals)
    ELSE LET ai_proposals == generate_ai_proposals(fs, resp)
         IN  IF ai_proposals.exc THEN Outcome("propose job", TRUE, FALSE, NoProposals)
             ELSE Outcome("propose job", FALSE, TRUE, ai_proposals.val)

InitPropose ==
    /\ \/ ai_enabled = FALSE /\ backend = NotCalled
       \/ ai_enabled = TRUE /\ backend \in Responses
    /\ stored \in FindingLists
    /\ collab \in ProposeCollabs
    /\ call = NoCall
    /\ first = NoCall
    /\ attempt = NoAttempt
    /\ request = NoRequest
    /\ store = <<>>
    /\ message = "none"
    /\ clock = 0
    /\ bucket = <<>>
    /\ job = NoJob
    /\ RuleIdle

ProposeFixes ==
    /\ request' = propose_fixes(stored, backend, collab)
    /\ UNCHANGED <<ruleVars, synthVars, attempt, collab, store, message, clock, bucket, job>>

ProposeJob ==
    /\ request' = propose_job_main(stored, backend, collab)
    /\ UNCHANGED <<ruleVars, synthVars, attempt, collab, store, message, clock, bucket, job>>

NextPropose == ProposeFixes \/ ProposeJob

SpecPropose == InitPropose /\ [][NextPropose]_vars


-----------------------------------------------------------------------------
(* One synthesis call followed step by step: the operation is entered, the   *)
(* backend's generate_content is invoked, the response is handled.  The     *)
(* call site passes no timeout, so a backend that never answers keeps the   *)
(* call inside generate_content.                                            *)

BackendHangs == [kind |-> "hang", text |-> <<>>]

AttemptResponses == Responses \cup {BackendHangs}

Operations == {"explanation", "summary", "proposal"}

InputsOf(op) == IF op = "explanation" THEN SynthFindings ELSE FindingLists

OpResult(op, input, resp) ==
    CASE op = "explanation" -> generate_explanation(input, resp)
      [] op = "summary" -> generate_scan_summary(input, resp)
      [] op = "proposal" -> generate_fix_proposal(input, resp)

\* where the call goes once the response was handled, retrying after a failure
AfterResponse_retry(a) ==
    IF a.response.kind \in {"raise", "none"} /\ a.calls < 2 THEN "calling" ELSE "done"

\* where the call goes once the response was handled: every branch after
\* generate_content returns from the operation
AfterResponse(a) == "done"

InitAttempt ==
    /\ \/ ai_enabled = FALSE /\ backend = NotCalled
       \/ ai_enabled = TRUE /\ backend \in AttemptResponses
    /\ stored = <<>>
    /\ call = NoCall
    /\ first = NoCall
    /\ RuleIdle
    /\ PipeIdle

\* the operation is entered; with the backend disabled it returns the
\* fallback at once
Enter(op, input) ==
    /\ attempt.pc = "idle"
    /\ attempt' = IF ~ai_enabled
                  THEN [pc |-> "done", op |-> op, input |-> input, calls |-> 0,
                        response |-> NotCalled,
                        result |-> <<OpResult(op, input, NotCalled)>>]
                  ELSE [pc |-> "calling", op |-> op, input |-> input, calls |-> 0,
                        response |-> NotCalled, result |-> <<>>]
    /\ UNCHANGED <<ruleVars, synthVars, collab, request, store, message, clock, bucket, job>>

\* self.model.generate_content(prompt) comes back (with a response or an exception)
Invoke ==
    /\ attempt.pc = "calling"
    /\ backend.kind # "hang"
    /\ attempt' = [attempt EXCEPT !.pc = "responded", !.calls = @ + 1,
                                  !.response = backend]
    /\ UNCHANGED <<ruleVars, synthVars, collab, request, store, message, clock, bucket, job>>

\* the response is handled and the operation returns
Finish ==
    /\ attempt.pc = "responded"
    /\ LET next == AfterResponse(attempt)
       IN  attempt' = [attempt EXCEPT
                          !.pc = next,
                          !.result = IF next = "done"
                                     THEN <<OpResult(attempt.op, attempt.input,
                                                     attempt.response)>>
                                     ELSE <<>>]
    /\ UNCHANGED <<ruleVars, synthVars, collab, request, store, message, clock, bucket, job>>

NextAttempt ==
    \/ \E op \in Operations : \E input \in InputsOf(op) : Enter(op, input)
    \/ Invoke
    \/ Finish

SpecAttempt == InitAttempt /\ [][NextAttempt]_vars


-----------------------------------------------------------------------------
(* Scans of policies that hold bindings with an empty role string *)

EmptyRoleBindings ==
    { [role |-> ROLE_EMPTY, members |-> <<"allUsers">>],
      [role |-> ROLE_EMPTY, members |-> <<"user:a@x.com">>] }

MalformedPolicies ==
    { [bindings |-> bs] : bs \in SeqsUpTo({OwnerBinding} \cup EmptyRoleBindings, MaxBindings) }

SecretContainer == <<[env |-> <<EnvVar(ENV_DB_PASSWORD)>>]>>

ProbeServices ==
    { [vpc_access |-> v, timeout |-> t, containers |-> c] :
        v \in BOOLEAN, t \in {<<>>, <<LongTimeoutSeconds + 1>>}, c \in {<<>>, SecretContainer} }

InitMalformed ==
    /\ policy \in MalformedPolicies
    /\ service \in ProbeServices
    /\ scans = <<>>
    /\ binding = NoBinding
    /\ findings0 = <<>>
    /\ findings = <<>>
    /\ bpc = "idle"
    /\ SynthIdle
    /\ PipeIdle

SpecMalformed == InitMalformed /\ [][Next]_vars


-----------------------------------------------------------------------------
(* write_findings_to_bigquery.  A findings dict is a function from its keys  *)
(* to optional values (<<>> is None), so that a missing key (KeyError) and a *)
(* None value are told apart.  A row keeps severity as a string and          *)
(* risk_score as an optional value (<<>> is NULL).                           *)

\* the dict that scan_cloud_run_service appended
ToDict(fragment) == [k \in DOMAIN fragment |-> <<fragment[k]>>]

Without(d, key) == [k \in DOMAIN d \ {key} |-> d[k]]

\* finding['severity'].lower() on the severities the rules emit
SeverityLower(sev) ==
    CASE sev = "CRITICAL" -> "critical"
      [] sev = "HIGH" -> "high"
      [] sev = "MEDIUM" -> "medium"
      [] sev = "LOW" -> "low"

\* row = {...}: a missing key raises KeyError, .lower() on None raises AttributeError
BuildRow(job_id, service_name, f, stamp) ==
    IF "severity" \notin DOMAIN f THEN Raise("KeyError")
    ELSE IF f.severity = <<>> THEN Raise("AttributeError")
    ELSE IF {"issue", "recommendation", "risk_score"} \ DOMAIN f # {} THEN Raise("KeyError")
    ELSE Ret([id |-> <<job_id, service_name, SeverityLower(f.severity[1]), stamp>>,
              job_id |-> job_id,
              severity |-> f.severity[1],
              resource_type |-> "Cloud Run Service",
              resource_name |-> service_name,
              issue_description |-> f.issue,
              recommendation |-> f.recommendation,
              risk_score |-> f.risk_score])

\* for finding in findings: rows_to_insert.append(row); stamps[i] is what
\* datetime.now().timestamp() returned for the i-th finding
RECURSIVE BuildRows(_, _, _, _, _)
BuildRows(job_id, service_name, fs, stamps, rows) ==
    IF fs = <<>> THEN Ret(rows)
    ELSE LET row == BuildRow(job_id, service_name, Head(fs), Head(stamps))
         IN  IF row.exc THEN row
             ELSE BuildRows(job_id, service_name, Tail(fs), Tail(stamps),
                            Append(rows, row.val))

\* What the findings table does: get_table and insert_rows each succeed or
\* raise; insert_rows may also return errors, and then it stored nothing.
StoreCollabs == [kind : {"store"}, get_table : {"ok", "raises"},
                 insert_rows : {"ok", "errors", "raises"}]

Written(outcome, rows) == [outcome |-> outcome, rows |-> rows]

\* the dicts of a scan's result
RECURSIVE ToDicts(_)
ToDicts(fs) == IF fs = <<>> THEN <<>> ELSE <<ToDict(Head(fs))>> \o ToDicts(Tail(fs))

\* write_findings_to_bigquery: returns None on every path; outcome says which
\* path was taken, rows what the table received and kept
write_findings_to_bigquery(job_id, service_name, fs, stamps, c) ==
    IF fs = <<>> THEN Written("nothing to write", <<>>)
    ELSE IF c.get_table = "raises" THEN Written("exception logged", <<>>)
    ELSE LET rows == BuildRows(job_id, service_name, fs, stamps, <<>>)
         IN  IF rows.exc THEN Written("exception logged", <<>>)
             ELSE IF c.insert_rows = "raises" THEN Written("exception logged", <<>>)
             ELSE IF c.insert_rows = "errors" THEN Written("errors logged", <<>>)
             ELSE Written("inserted", rows.val)

\* The readings of datetime.now().timestamp() for n findings, the clock
\* having last shown clk: a reading is the previous one or a later one
RECURSIVE Stamps(_, _)
Stamps(n, clk) ==
    IF n = 0 THEN {<<>>}
    ELSE UNION { { <<t>> \o rest : rest \in Stamps(n - 1, t) } : t \in {clk, clk + 1} }


\* The dicts handed to write_findings_to_bigquery: two that the rules emit,
\* and the first of them with severity or risk_score missing or None
HighDict == ToDict(ExcessiveRoleFragment(ROLE_OWNER))

WriteDicts ==
    { HighDict, ToDict(NoVpcFragment),
      Without(HighDict, "severity"), Without(HighDict, "risk_score"),
      [HighDict EXCEPT !.severity = <<>>], [HighDict EXCEPT !.risk_score = <<>>] }

WriteInputs == SeqsUpTo(WriteDicts, MaxList)

\* the clock after the call: it is read while the rows are built
LastReading(fs, stamps, clk, c) ==
    IF fs # <<>> /\ c.get_table = "ok" THEN stamps[Len(stamps)] ELSE clk

InitWrite ==
    /\ collab \in StoreCollabs
    /\ attempt = NoAttempt
    /\ request = NoRequest
    /\ store = <<>>
    /\ message = "none"
    /\ clock = 0
    /\ bucket = <<>>
    /\ job = NoJob
    /\ RuleIdle
    /\ SynthIdle

\* one call write_findings_to_bigquery("job-1", "payments-api", fs)
WriteFindings(fs, stamps) ==
    /\ request.kind = "none"
    /\ LET w == write_findings_to_bigquery("job-1", "payments-api", fs, stamps, collab)
       IN  /\ store' = store \o w.rows
           /\ request' = [kind |-> "write", findings |-> fs, outcome |-> w.outcome]
    /\ clock' = LastReading(fs, stamps, clock, collab)
    /\ UNCHANGED <<ruleVars, synthVars, attempt, collab, message, bucket, job>>

NextWrite == \E fs \in WriteInputs : \E stamps \in Stamps(Len(fs), clock) : WriteFindings(fs, stamps)

SpecWrite == InitWrite /\ [][NextWrite]_vars


-----------------------------------------------------------------------------
(* process_scan_request: one scan-request message of the subscription; the   *)
(* queue delivers a message again after a nack, and may deliver it again     *)
(* after an ack (at-least-once delivery)                                     *)

MaxDeliveries == 2   \* deliveries of the scan-request message

QueueCollabs ==
    [kind : {"queue"}, payload : {"ok", "malformed"},
     fetch : {"ok", "get_iam_policy_raises"},
     get_table : {"ok", "raises"}, insert_rows : {"ok", "errors", "raises"}]

QueuePolicies == { [bindings |-> <<>>], [bindings |-> <<OwnerBinding>>] }

QueueServices ==
    { [vpc_access |-> v, timeout |-> <<>>, containers |-> c] :
        v \in BOOLEAN, c \in {<<>>, SecretContainer} }

Processed(n, fs, outcome) ==
    [kind |-> "scan request", deliveries |-> n, findings |-> fs, outcome |-> outcome]

InitQueue ==
    /\ policy \in QueuePolicies
    /\ service \in QueueServices
    /\ collab \in QueueCollabs
    /\ message = "pending"
    /\ request = Processed(0, <<>>, "none")
    /\ store = <<>>
    /\ clock = 0
    /\ bucket = <<>>
    /\ job = NoJob
    /\ attempt = NoAttempt
    /\ scans = <<>>
    /\ binding = NoBinding
    /\ findings0 = <<>>
    /\ findings = <<>>
    /\ bpc = "idle"
    /\ SynthIdle

\* process_scan_request(message): a payload that cannot be parsed is nacked;
\* otherwise the service is scanned, the findings are written, and the
\* message is acknowledged
ProcessScanRequest ==
    /\ message = "pending"
    /\ IF collab.payload = "malformed"
       THEN /\ message' = "nacked"
            /\ request' = Processed(request.deliveries + 1, <<>>, "not parsed")
            /\ UNCHANGED <<store, clock>>
       ELSE LET fs == scan_cloud_run_service(collab.fetch, policy, service)
            IN  \E stamps \in Stamps(Len(fs), clock) :
                  LET w == write_findings_to_bigquery("job-1", "payments-api",
                                                      ToDicts(fs), stamps, collab)
                  IN  /\ store' = store \o w.rows
                      /\ clock' = LastReading(fs, stamps, clock, collab)
                      /\ request' = Processed(request.deliveries + 1, fs, w.outcome)
                      /\ message' = "acked"
    /\ UNCHANGED <<ruleVars, synthVars, attempt, collab, bucket, job>>

\* the subscription delivers the message again
Redeliver ==
    /\ message \in {"acked", "nacked"}
    /\ request.deliveries < MaxDeliveries
    /\ message' = "pending"
    /\ UNCHANGED <<ruleVars, synthVars, attempt, collab, request, store, clock, bucket, job>>

NextQueue ==
    \/ ProcessScanRequest
    \/ Redeliver

SpecQueue == InitQueue /\ [][NextQueue]_vars

-----------------------------------------------------------------------------
(* Claims about the priority score and the merge of backend answers *)

\* C11: in the fallback explanation priority_score is the finding's
\* risk_score whenever one is present, 0 included, and the severity table's
\* entry (CRITICAL 95, HIGH 75, MEDIUM 50, LOW 25) only when it is absent.
C11_PriorityFromRiskScore ==
    (call.op = "explanation" /\ ~call.raised /\ call.result.ai_model = "fallback-analysis") =>
        call.result.priority_score =
            IF call.input.risk_score # <<>> THEN call.input.risk_score[1]
            ELSE CASE call.input.severity = "CRITICAL" -> 95
                   [] call.input.severity = "HIGH" -> 75
                   [] call.input.severity = "MEDIUM" -> 50
                   [] call.input.severity = "LOW" -> 25


\* the keys of the JSON object a text response carries
KeysOf(resp) == DOMAIN json_loads(Strip(StripFences(resp.text))).val.obj

\* an output field has the backend's value when the answer has the key, and
\* the given default when it has not
Merged(c, field, key, default) ==
    c.result[field] = IF key \in KeysOf(c.response) THEN ExplanationJson[key] ELSE default

\* C12: when the backend answers with a JSON object that leaves out any
\* subset of the eight expected keys, generate_explanation returns a result
\* with ai_powered = true (never the fallback) that has all eight output
\* fields: the backend's value for a key that is there, the default otherwise.
C12_PartialAnswerMerged ==
    call.op = "explanation" =>
        /\ ~call.raised
        /\ call.result.ai_powered = TRUE
        /\ call.result.ai_model = "gemini-2.0-flash"
        /\ DOMAIN call.result = ExplanationFields
        /\ Merged(call, "ai_explanation", "explanation", call.response.text)
        /\ Merged(call, "blast_radius", "blast_radius", "Analysis in progress")
        /\ Merged(call, "risk_assessment", "risk_assessment", "Manual review recommended")
        /\ Merged(call, "priority_score", "priority_score",
                  generate_fallback_explanation(call.input).priority_score)
        /\ Merged(call, "business_impact", "business_impact", "Medium")
        /\ Merged(call, "remediation_urgency", "remediation_urgency", "Medium")
        /\ Merged(call, "attack_vector", "attack_vector", "Manual analysis required")
        /\ Merged(call, "compliance_impact", "compliance_impact", "Review required")

\* C12 witness: the answer had the explanation and the blast radius only; the
\* result is AI-powered, keeps both and fills risk_assessment with its default.
C12_Witness ==
    /\ call.op = "explanation"
    /\ KeysOf(call.response) = {"explanation", "blast_radius"}
    /\ call.result.ai_powered
    /\ call.result.blast_radius = ExplanationJson.blast_radius
    /\ call.result.risk_assessment = "Manual review recommended"


-----------------------------------------------------------------------------
(* Claims about the summary's histogram *)

NumberOf(fs, sev) == Cardinality({ i \in DOMAIN fs : fs[i].severity = sev })

\* C13: on every path of generate_scan_summary (backend disabled, answer
\* merged, answer wrapped after a parse failure, backend error) the returned
\* severity_counts gives, for each of the four severities, the number of
\* input findings of that severity, and the four counts add up to the number
\* of input findings; counts in the backend's answer change nothing.
C13_Histogram ==
    (call.op = "summary" /\ ~call.raised) =>
        LET counts == call.result.severity_counts
        IN  /\ DOMAIN counts = {"CRITICAL", "HIGH", "MEDIUM", "LOW"}
            /\ \A sev \in DOMAIN counts : counts[sev] = NumberOf(call.input, sev)
            /\ counts["CRITICAL"] + counts["HIGH"] + counts["MEDIUM"] + counts["LOW"]
                   = Len(call.input)

\* C13 witness: the backend's answer carried counts of its own, was merged,
\* and the summary of three findings still reports two HIGH and one LOW.
C13_Witness ==
    /\ call.op = "summary"
    /\ call.result.ai_powered
    /\ call.response = TextResponse(<<JsonTok("object", SummaryJsonWithCounts)>>)
    /\ Len(call.input) = 3
    /\ call.result.severity_counts =
           [sev \in SeverityKeys |-> CASE sev = "HIGH" -> 2 [] sev = "LOW" -> 1 [] OTHER -> 0]


-----------------------------------------------------------------------------
(* Claims about the callers of the synthesis layer *)

\* the backend is disabled, or its call raises or returns no response
BackendDown == ~ai_enabled \/ backend.kind \in {"raise", "none"}

\* C14: with the backend disabled or failing, a proposal request (POST
\* /propose, the propose job) gets a manual-review stub from the proposal
\* operation (proposal text, placeholder configuration code, implementation
\* steps, never tagged AI-powered) and fails only when a collaborator other
\* than the backend failed: the findings query, or the job trigger of POST
\* /propose.
C14_ProposalStub ==
    (request.kind # "none" /\ BackendDown) =>
        /\ request.generated =>
              /\ ProposalFields \subseteq DOMAIN request.ai_proposals
              /\ request.ai_proposals.terraform_code \in
                     {"# AI-generated fixes unavailable", "# Manual review required"}
              /\ request.ai_proposals.implementation_steps \in
                     {<<"Manual review required">>, <<"Review findings manually">>}
              /\ "ai_powered" \in DOMAIN request.ai_proposals =>
                     request.ai_proposals.ai_powered = FALSE
        /\ request.failed =>
              \/ collab.query = "raises"
              \/ request.kind = "POST /propose" /\ collab.job_api = "fails"
        /\ (collab.query = "ok" /\ stored # <<>>) => request.generated

\* C14 witness: the backend raised, POST /propose answered with the stub and
\* did not fail.
C14_Witness ==
    /\ request.kind = "POST /propose"
    /\ ai_enabled
    /\ backend.kind = "raise"
    /\ request.generated
    /\ ~request.failed
    /\ request.ai_proposals.terraform_code = "# Manual review required"


-----------------------------------------------------------------------------
(* Claims about the backend invocation *)

\* C15: a synthesis call invokes the backend at most once: not at all when
\* the backend is disabled (the call returns the fallback directly), once when
\* it is enabled, and not again after an error, an empty response or a parse
\* failure.
C15_SingleAttempt ==
    attempt.pc # "idle" =>
        /\ attempt.calls <= 1
        /\ ~ai_enabled => (attempt.pc = "done" /\ attempt.calls = 0)
        /\ (ai_enabled /\ attempt.pc \in {"responded", "done"}) => attempt.calls = 1
        /\ attempt.pc = "done" => (Len(attempt.result) = 1 /\ ~attempt.result[1].exc)

\* C15 witness: the backend raised on its one invocation and the call is over.
C15_Witness ==
    /\ attempt.pc = "done"
    /\ ai_enabled
    /\ attempt.response.kind = "raise"
    /\ attempt.calls = 1


\* C19: a synthesis call always comes to an end with a valid result: a call
\* that is under way can always take its next step (a backend that does not
\* answer is cut off by a timeout), and a finished call holds a result, not an
\* exception.
C19_AlwaysReturns ==
    /\ attempt.pc \in {"calling", "responded"} => ENABLED NextAttempt
    /\ attempt.pc = "done" => (Len(attempt.result) = 1 /\ ~attempt.result[1].exc)


-----------------------------------------------------------------------------
(* Claims about malformed records, persistence and the queue *)

\* the policy without its bindings whose role string is empty
WellFormedPart(pol) ==
    [bindings |-> SelectSeq(pol.bindings, LAMBDA b : b.role # ROLE_EMPTY)]

\* C16: a binding whose role string is empty is skipped: the scan returns the
\* fragments of the other bindings and of the service-configuration rules, in
\* their order, and no fragment for the malformed binding.
C16_MalformedSkipped ==
    \A i \in OkScans :
        scans[i].findings = scan_cloud_run_service("ok", WellFormedPart(policy), service)


\* a findings dict without a severity or without a risk_score
Incomplete(f) ==
    \/ "severity" \notin DOMAIN f
    \/ "risk_score" \notin DOMAIN f
    \/ f.severity = <<>>
    \/ f.risk_score = <<>>

\* C17: no finding that lacks a severity or a risk_score reaches the store:
\* every row of the table has both fields set, and a call that was handed
\* such a finding stores no row for it.
C17_NoIncompleteRow ==
    /\ \A i \in DOMAIN store : store[i].risk_score # <<>>
    /\ request.kind = "write" =>
          Len(store) <= Cardinality({ i \in DOMAIN request.findings :
                                        ~Incomplete(request.findings[i]) })


\* C18: a message is acknowledged only after the findings of its scan were
\* persisted; when the insert reports errors or raises, the message is not
\* acknowledged.
C18_AckAfterPersist ==
    message = "acked" => request.outcome \in {"inserted", "nothing to write"}

\* C20: the rows of the table have pairwise different ids, also two rows of
\* the same job, service and severity written by one call, and the rows of a
\* scan request that was processed again.
C20_UniqueIds ==
    \A i, j \in DOMAIN store : i # j => store[i].id # store[j].id


-----------------------------------------------------------------------------
(* SpecRules: scans of policies whose bindings trigger several rules at once *)

PublicOwnerBinding == [role |-> ROLE_OWNER, members |-> <<"allUsers", "user:a@x.com">>]

\* allUsers and ten ordinary principals: eleven members
PublicBroadViewerBinding ==
    [role |-> ROLE_VIEWER, members |-> <<"allUsers">> \o SubSeq(UserNames, 1, BroadMemberLimit)]

PlainInvokerBinding == [role |-> ROLE_INVOKER, members |-> <<"user:a@x.com">>]

RuleBindings == {PublicOwnerBinding, PublicBroadViewerBinding, PlainInvokerBinding, OwnerBinding}

RulePolicies == { [bindings |-> bs] : bs \in SeqsUpTo(RuleBindings, MaxBindings) }

InitRules ==
    /\ policy \in RulePolicies
    /\ service \in ProbeServices
    /\ scans = <<>>
    /\ binding = NoBinding
    /\ findings0 = <<>>
    /\ findings = <<>>
    /\ bpc = "idle"
    /\ SynthIdle
    /\ PipeIdle

SpecRules == InitRules /\ [][Next]_vars

-----------------------------------------------------------------------------
(* Claims about the independence of the rules *)

\* severity and risk score of each fragment, in order
Scores(fs) == [i \in DOMAIN fs |-> <<fs[i].severity, fs[i].risk_score>>]

IsPublic(b) == \E i \in DOMAIN b.members : b.members[i] \in {"allUsers", "allAuthenticatedUsers"}

\* what each rule contributes for a binding, on its own
PublicPart(b) == IF IsPublic(b) THEN << <<"CRITICAL", 95>> >> ELSE <<>>
ExcessivePart(b) == IF b.role \in {ROLE_OWNER, ROLE_EDITOR} THEN << <<"HIGH", 85>> >> ELSE <<>>
BroadPart(b) ==
    IF b.role = ROLE_VIEWER /\ Len(b.members) >= 11 THEN << <<"MEDIUM", 60>> >> ELSE <<>>

RECURSIVE BindingParts(_)
BindingParts(bs) ==
    IF bs = <<>> THEN <<>>
    ELSE PublicPart(Head(bs)) \o ExcessivePart(Head(bs)) \o BroadPart(Head(bs))
         \o BindingParts(Tail(bs))

\* what the network, timeout and environment rules contribute
ServiceParts(svc) ==
    (IF svc.vpc_access THEN <<>> ELSE << <<"MEDIUM", 55>> >>)
    \o (IF svc.timeout # <<>> /\ svc.timeout[1] > 300 THEN << <<"MEDIUM", 50>> >> ELSE <<>>)
    \o [i \in 1..ExpectedSecretCount(svc) |-> <<"HIGH", 80>>]

\* C21: the rules are evaluated independently: every binding yields one
\* fragment per rule it triggers, in rule order (CRITICAL 95, HIGH 85, MEDIUM
\* 60), binding after binding, and the network, timeout and environment rules
\* follow whatever the bindings yielded.
C21_NoShortCircuit ==
    \A i \in OkScans :
        Scores(scans[i].findings) = BindingParts(policy.bindings) \o ServiceParts(service)

\* C21 witness: a public owner binding, then a public viewer binding of eleven
\* members, on a service without VPC connector: 95, 85, 95, 60, then 55.
C21_Witness ==
    /\ policy.bindings = <<PublicOwnerBinding, PublicBroadViewerBinding>>
    /\ ~service.vpc_access
    /\ \E i \in OkScans :
          SubSeq(Scores(scans[i].findings), 1, 5) =
              << <<"CRITICAL", 95>>, <<"HIGH", 85>>, <<"CRITICAL", 95>>,
                 <<"MEDIUM", 60>>, <<"MEDIUM", 55>> >>

\* C22: a viewer binding yields a MEDIUM fragment of risk score 60 exactly
\* when it has more than ten members (eleven yield one, ten or fewer none); a
\* binding of another role yields none, however many members it has.
C22_BroadViewer ==
    bpc = "done" =>
        Cardinality(Of(Appended, "MEDIUM", 60)) =
            IF binding.role = ROLE_VIEWER /\ Len(binding.members) >= 11 THEN 1 ELSE 0

\* C22 witness: a viewer binding of exactly eleven ordinary members was
\* analysed and gave one MEDIUM/60 fragment.
C22_Witness ==
    /\ bpc = "done"
    /\ binding.role = ROLE_VIEWER
    /\ binding.members = SubSeq(UserNames, 1, 11)
    /\ Cardinality(Of(Appended, "MEDIUM", 60)) = 1

\* C23: a scan yields exactly one MEDIUM fragment of risk score 55 when the
\* service has no VPC connector and none when it has one; a satisfied check
\* yields nothing: every fragment has one of the four severities.
C23_NetworkIsolation ==
    \A i \in OkScans :
        /\ Cardinality(Of(scans[i].findings, "MEDIUM", 55)) = IF service.vpc_access THEN 0 ELSE 1
        /\ \A k \in DOMAIN scans[i].findings :
              scans[i].findings[k].severity \in {"CRITICAL", "HIGH", "MEDIUM", "LOW"}
        /\ (service.vpc_access /\ policy.bindings = <<>> /\ service.timeout = <<>>
               /\ service.containers = <<>>) => scans[i].findings = <<>>

\* C23 witness: a service with a VPC connector and nothing else to report was
\* scanned and the scan came back empty.
C23_Witness ==
    /\ service.vpc_access
    /\ policy.bindings = <<>>
    /\ \E i \in OkScans : scans[i].findings = <<>>


-----------------------------------------------------------------------------
(* SpecStartup: the selection of the backend model when the module is        *)
(* loaded (main.py; propose_job.py runs the same loop), the construction of  *)
(* the service object, and a synthesis call served afterwards                *)

model_names_to_try ==
    <<"gemini-2.5-flash", "gemini-2.5-pro", "gemini-2.0-flash", "gemini-pro-latest",
      "gemini-flash-latest", "models/gemini-2.5-flash", "models/gemini-2.5-pro">>

\* What a probe of a candidate does: it returns text, returns a response
\* without text, or raises (GenerativeModel(...) or generate_content).
ProbeOutcomes == {"text", "no_text", "raises"}

\* a probe counting any response as a success, with or without text
Healthy_any_response(outcome) == outcome # "raises"

\* if test_response and hasattr(test_response, 'text') and test_response.text
Healthy(outcome) == outcome = "text"

StartupCollabs ==
    [kind : {"startup"}, api_key : BOOLEAN, configure : {"ok", "raises"},
     probe : [DOMAIN model_names_to_try -> ProbeOutcomes]]

\* gemini_model = None, nothing probed yet
Loading == [pc |-> "start", next |-> 1, probes |-> <<>>, gemini_model |-> <<>>]

InitStartup ==
    /\ collab \in StartupCollabs
    /\ attempt = Loading
    /\ ai_enabled = FALSE
    /\ backend = TextResponse(<<JsonTok("object", ExplanationJson)>>)
    /\ stored = <<>>
    /\ call = NoCall
    /\ first = NoCall
    /\ request = NoRequest
    /\ store = <<>>
    /\ message = "none"
    /\ clock = 0
    /\ bucket = <<>>
    /\ job = NoJob
    /\ RuleIdle

\* if GEMINI_API_KEY: genai.configure(api_key=...); without a key, or when
\* configure raises, gemini_model stays None
Configure ==
    /\ attempt.pc = "start"
    /\ attempt' = IF collab.api_key /\ collab.configure = "ok"
                  THEN [attempt EXCEPT !.pc = "probing"]
                  ELSE [attempt EXCEPT !.pc = "loaded"]
    /\ UNCHANGED <<ruleVars, synthVars, collab, request, store, message, clock, bucket, job>>

\* one iteration of for model_name in model_names_to_try: the candidate is
\* probed; a healthy one is kept and ends the loop (break), any other outcome
\* goes on to the next candidate
ProbeModel ==
    /\ attempt.pc = "probing"
    /\ LET i == attempt.next
           ok == Healthy(collab.probe[i])
       IN  attempt' = [pc |-> IF ok \/ i = Len(model_names_to_try) THEN "loaded" ELSE "probing",
                       next |-> i + 1,
                       probes |-> Append(attempt.probes, i),
                       gemini_model |-> IF ok THEN <<model_names_to_try[i]>>
                                        ELSE attempt.gemini_model]
    /\ UNCHANGED <<ruleVars, synthVars, collab, request, store, message, clock, bucket, job>>

\* ai_service = AIService(gemini_model): ai_enabled = model is not None
CreateService ==
    /\ attempt.pc = "loaded"
    /\ attempt' = [attempt EXCEPT !.pc = "ready"]
    /\ ai_enabled' = (attempt.gemini_model # <<>>)
    /\ UNCHANGED <<ruleVars, backend, stored, call, first, collab, request, store,
                   message, clock, bucket, job>>

\* a synthesis call served by the running process
Serve ==
    /\ attempt.pc = "ready"
    /\ call.op = "none"
    /\ Explain(FindingOf("HIGH"))

NextStartup ==
    \/ Configure
    \/ ProbeModel
    \/ CreateService
    \/ Serve

SpecStartup == InitStartup /\ [][NextStartup]_vars

-----------------------------------------------------------------------------
(* Claims about the model selection *)

\* the positions of the candidates whose probe returns text
HealthyCandidates(c) == { i \in 1..7 : c.probe[i] = "text" }

Least(S) == CHOOSE i \in S : \A j \in S : i <= j

\* the candidates that are probed: all up to the first healthy one, or all
\* seven; none without an API key or a configured client
ExpectedProbes(c) ==
    IF ~c.api_key \/ c.configure = "raises" THEN 0
    ELSE IF HealthyCandidates(c) = {} THEN 7
    ELSE Least(HealthyCandidates(c))

ExpectedModel(c) ==
    IF ~c.api_key \/ c.configure = "raises" \/ HealthyCandidates(c) = {} THEN <<>>
    ELSE <<model_names_to_try[Least(HealthyCandidates(c))]>>

\* C24: the candidates are probed in their fixed order, each at most once;
\* the model selected is the first whose probe returns text and no candidate
\* after it is probed; once the module is loaded the selection stays what it
\* is, also while calls are served; without an API key, or when no probe
\* returns text, no model is selected and the service runs with AI disabled.
C24_FirstHealthyModel ==
    /\ attempt.probes = [i \in 1..Len(attempt.probes) |-> i]
    /\ Len(attempt.probes) <= ExpectedProbes(collab)
    /\ attempt.pc \in {"loaded", "ready"} =>
          /\ Len(attempt.probes) = ExpectedProbes(collab)
          /\ attempt.gemini_model = ExpectedModel(collab)
    /\ attempt.pc = "ready" => (ai_enabled <=> ExpectedModel(collab) # <<>>)
    /\ attempt.pc # "ready" => ~ai_enabled
    /\ call.op # "none" => call.result.ai_powered = (ExpectedModel(collab) # <<>>)

\* C24 witness: the first candidate raised, the second answered without
\* text, the third answered with text and was selected; the fourth, healthy
\* too, was never probed, and a call was served with the selection in place.
C24_Witness ==
    /\ SubSeq(collab.probe, 1, 4) = <<"raises", "no_text", "text", "text">>
    /\ attempt.pc = "ready"
    /\ attempt.probes = <<1, 2, 3>>
    /\ attempt.gemini_model = <<"gemini-2.0-flash">>
    /\ ai_enabled
    /\ call.op = "explanation"


-----------------------------------------------------------------------------
(* SpecReport: executions of the propose job (propose_job.py) for one        *)
(* job_id; the report goes to the object proposals/{job_id}/report.json      *)

MaxRuns == 2   \* executions of the propose job for the job_id

\* severity_counts = {}; for finding in findings: counts[severity] = counts.get(severity, 0) + 1
ReportCounts(fs) ==
    [sev \in { fs[i].severity : i \in DOMAIN fs } |->
        Cardinality({ i \in DOMAIN fs : fs[i].severity = sev })]

\* generate_report: now is what datetime.utcnow() returned
generate_report(job_id, fs, ai_proposals, now) ==
    [job_id |-> job_id,
     generated_at |-> now,
     summary |-> [total_findings |-> Len(fs),
                  severity_counts |-> ReportCounts(fs),
                  ai_powered |-> Get(ai_proposals, "ai_powered", FALSE),
                  ai_model |-> IF "ai_model" \in DOMAIN ai_proposals
                               THEN <<ai_proposals.ai_model>> ELSE <<>>],
     findings |-> fs,
     ai_proposals |-> ai_proposals,
     recommendations |->
         [priority_order |-> <<"CRITICAL", "HIGH", "MEDIUM", "LOW">>,
          implementation_phases |-> <<"Phase 1: Critical and High severity issues",
                                      "Phase 2: Medium severity issues",
                                      "Phase 3: Low severity issues and cleanup">>]]

\* What the collaborators of the propose job do: the findings query, the
\* REPORT_BUCKET setting, blob.upload_from_string.
ReportCollabs ==
    [kind : {"report"}, query : {"ok", "raises"}, report_bucket : BOOLEAN,
     upload : {"ok", "raises"}]

\* upload_report: blob.upload_from_string(...) is called without a
\* precondition on the object, so it stores the report whether or not the
\* object exists; a failure is logged and None is returned
upload_report(objects, report, c) ==
    IF ~c.report_bucket THEN objects
    ELSE IF c.upload = "raises" THEN objects
    ELSE Append(objects, report)

Run(n, outcome) == [kind |-> "propose job run", runs |-> n, outcome |-> outcome]

\* The backend behaviours the propose job is run against.
ReportProbes ==
    {BackendRaises, TextResponse(ProseText), TextResponse(<<JsonTok("object", ProposalJson)>>)}

InitReport ==
    /\ \/ ai_enabled = FALSE /\ backend = NotCalled
       \/ ai_enabled = TRUE /\ backend \in ReportProbes
    /\ stored \in FindingLists
    /\ collab \in ReportCollabs
    /\ request = Run(0, "none")
    /\ call = NoCall
    /\ first = NoCall
    /\ attempt = NoAttempt
    /\ store = <<>>
    /\ message = "none"
    /\ clock = 0
    /\ bucket = <<>>
    /\ job = NoJob
    /\ RuleIdle

\* one execution of propose_job.main for the job_id
RunProposeJob ==
    /\ request.runs < MaxRuns
    /\ IF collab.query = "raises"
       THEN /\ request' = Run(request.runs + 1, "raised")
            /\ UNCHANGED <<bucket, clock>>
       ELSE IF stored = <<>>
       THEN /\ request' = Run(request.runs + 1, "no findings")
            /\ UNCHANGED <<bucket, clock>>
       ELSE \E now \in {clock, clock + 1} :
              LET ai_proposals == generate_ai_proposals(stored, backend).val
                  report == generate_report("job-1", stored, ai_proposals, now)
              IN  /\ bucket' = upload_report(bucket, report, collab)
                  /\ clock' = now
                  /\ request' = Run(request.runs + 1, "completed")
    /\ UNCHANGED <<ruleVars, synthVars, attempt, collab, store, message, job>>

NextReport == RunProposeJob

SpecReport == InitReport /\ [][NextReport]_vars

-----------------------------------------------------------------------------
(* Claims about the report *)

\* C25: the report of a job is written at most once: after an upload for the
\* job_id, a later execution of the propose job for the same job_id makes no
\* further upload to the object, which stays as it was.
C25_ReportWrittenOnce ==
    Len(bucket) <= 1


-----------------------------------------------------------------------------
(* SpecExplain: GET /explain/{finding_id} (main.py, explain_finding).  The   *)
(* row of the findings table with that id, if there is one, is stored[1];    *)
(* of its columns the model keeps those that the handler or the synthesis    *)
(* layer reads.                                                              *)

\* What the collaborators of the handler do: the query, and whether the row
\* has a created_at (the Finding model requires a string).
ExplainCollabs == [kind : {"explain"}, query : {"ok", "raises"}, created_at : {"set", "null"}]

Response(kind, status, body) == [kind |-> kind, status |-> status, body |-> body]

ErrorBody(detail) == [detail |-> detail]

\* finding = Finding(id=..., ..., created_at=...): risk_score is not passed
\* and takes its default, None; created_at = None fails the validation
RowToFinding(row, c) ==
    IF c.created_at = "null" THEN Raise("ValidationError")
    ELSE Ret(Finding(row.severity, row.resource_type, row.resource_name,
                     row.issue_description, <<>>))

\* explanation = {...}: the row's columns and the fields of ai_analysis
ExplanationBody(row, ai_analysis) ==
    [severity |-> row.severity,
     resource_type |-> row.resource_type,
     resource_name |-> row.resource_name,
     issue_description |-> row.issue_description,
     blast_radius |-> Get(ai_analysis, "blast_radius", "Limited to service scope"),
     ai_explanation |-> Get(ai_analysis, "ai_explanation", "This issue affects the service"),
     risk_assessment |-> Get(ai_analysis, "risk_assessment", "Manual review recommended"),
     priority_score |-> ai_analysis.priority_score,
     business_impact |-> ai_analysis.business_impact,
     remediation_urgency |-> ai_analysis.remediation_urgency,
     attack_vector |-> ai_analysis.attack_vector,
     compliance_impact |-> ai_analysis.compliance_impact,
     ai_powered |-> Get(ai_analysis, "ai_powered", FALSE),
     ai_model |-> ai_analysis.ai_model]

\* explain_finding: 404 when no row has the id, 500 on any other exception
explain_finding(rows, resp, c) ==
    IF c.query = "raises" THEN Response("GET /explain", 500, ErrorBody("Failed to generate explanation"))
    ELSE IF rows = <<>> THEN Response("GET /explain", 404, ErrorBody("Finding not found"))
    ELSE LET row == rows[1]
             finding == RowToFinding(row, c)
         IN  IF finding.exc
             THEN Response("GET /explain", 500, ErrorBody("Failed to generate explanation"))
             ELSE LET ai_analysis == generate_explanation(finding.val, resp)
                  IN  IF ai_analysis.exc
                      THEN Response("GET /explain", 500, ErrorBody("Failed to generate explanation"))
                      ELSE Response("GET /explain", 200, ExplanationBody(row, ai_analysis.val))

\* The backend behaviours the endpoints are run against.
EndpointProbes ==
    {BackendRaises, BackendNone, TextResponse(ProseText),
     TextResponse(<<JsonTok("object", ExplanationJson)>>),
     TextResponse(<<JsonTok("object", PartialExplanationJson)>>)}

StoredRows == {<<>>} \cup { <<f>> : f \in SynthFindings }

InitExplain ==
    /\ \/ ai_enabled = FALSE /\ backend = NotCalled
       \/ ai_enabled = TRUE /\ backend \in EndpointProbes
    /\ stored \in StoredRows
    /\ collab \in ExplainCollabs
    /\ call = NoCall
    /\ first = NoCall
    /\ attempt = NoAttempt
    /\ request = NoRequest
    /\ store = <<>>
    /\ message = "none"
    /\ clock = 0
    /\ bucket = <<>>
    /\ job = NoJob
    /\ RuleIdle

ExplainFinding ==
    /\ request' = explain_finding(stored, backend, collab)
    /\ UNCHANGED <<ruleVars, synthVars, attempt, collab, store, message, clock, bucket, job>>

NextExplain == ExplainFinding

SpecExplain == InitExplain /\ [][NextExplain]_vars

-----------------------------------------------------------------------------
(* Claims about the explanation endpoint *)

\* C26: for a stored finding with a risk_score r, the explanation that GET
\* /explain/{finding_id} returns without a backend-provided priority (backend
\* disabled or failed) has priority_score = r; the severity table (CRITICAL
\* 95, HIGH 75, MEDIUM 50, LOW 25) is used only for a finding stored without
\* a risk_score.
C26_StoredRiskScoreFirst ==
    (request.kind = "GET /explain" /\ request.status = 200 /\ ~request.body.ai_powered) =>
        request.body.priority_score =
            IF stored[1].risk_score # <<>> THEN stored[1].risk_score[1]
            ELSE CASE stored[1].severity = "CRITICAL" -> 95
                   [] stored[1].severity = "HIGH" -> 75
                   [] stored[1].severity = "MEDIUM" -> 50
                   [] stored[1].severity = "LOW" -> 25


-----------------------------------------------------------------------------
(* SpecFallback: fallback explanations of findings that differ in their      *)
(* resource name and issue description as well                               *)

NamedFindings ==
    { Finding(sev, rt, rname, issue, rs) :
        sev \in SeverityKeys, rt \in ResourceTypes,
        rname \in {"payments-api", "orders-api"},
        issue \in {"Service allows unauthenticated access",
                   "Service has no VPC connector configured"},
        rs \in {<<>>, <<85>>} }

InitFallback ==
    /\ \/ ai_enabled = FALSE /\ backend = NotCalled
       \/ ai_enabled = TRUE /\ backend \in {BackendRaises, BackendNone}
    /\ stored = <<>>
    /\ call = NoCall
    /\ first = NoCall
    /\ RuleIdle
    /\ PipeIdle

NextFallback == \E f \in NamedFindings : Explain(f)

SpecFallback == InitFallback /\ [][NextFallback]_vars

\* C27: the fallback explanation depends on the finding's severity and
\* resource_type only: two findings that agree on severity, resource_type
\* and risk_score get the same fallback result, field by field, whatever
\* their resource_name and issue_description.
C27_FallbackFromSeverityAndType ==
    (~ai_enabled /\ call.op = "explanation" /\ first.op = "explanation"
        /\ call.input.severity = first.input.severity
        /\ call.input.resource_type = first.input.resource_type
        /\ call.input.risk_score = first.input.risk_score) =>
        call.result = first.result


-----------------------------------------------------------------------------
(* SpecJobSummary: GET /summary/{job_id} (main.py, get_ai_summary), which    *)
(* calls the handler of GET /findings/{job_id} as a function and hands its   *)
(* return value to generate_scan_summary.  That value is a dict; a dict is   *)
(* kept with its keys in insertion order, since len(), truth value and       *)
(* iteration of a dict go over its keys.                                     *)

PyDict(keys, items) == [type |-> "dict", keys |-> keys, items |-> items]

\* Python: len(d), bool(d), for x in d
PyLen(d) == Len(d.keys)
Truthy(d) == Len(d.keys) > 0
IterationOf(d) == d.keys

\* What the findings table does when it is queried.
SummaryCollabs == [kind : {"summary"}, query : {"ok", "raises"}]

\* get_findings: {"job_id": ..., "count": ..., "findings": [...]}, or an
\* HTTPException with status 500 when the query raises
get_findings(job_id, rows, c) ==
    IF c.query = "raises" THEN Raise(500)
    ELSE Ret(PyDict(<<"job_id", "count", "findings">>,
                    [job_id |-> job_id, count |-> Len(rows), findings |-> rows]))

\* generate_scan_summary handed a dict: `for finding in findings` yields the
\* keys, which are strings, and finding.severity raises AttributeError on the
\* first of them; the except branch calls _generate_fallback_summary, whose
\* loop raises the same error outside any try
generate_scan_summary_of_dict(d, resp) ==
    IF IterationOf(d) = <<>> THEN generate_scan_summary(<<>>, resp)
    ELSE Raise("AttributeError")

SummaryBody(job_id, summary, total) ==
    [job_id |-> job_id, summary |-> summary, total_findings |-> total, ai_powered |-> TRUE]

\* get_ai_summary: an HTTPException passes through, any other exception
\* becomes a 500
get_ai_summary(job_id, rows, resp, c) ==
    LET fetched == get_findings(job_id, rows, c)
    IN  IF fetched.exc
        THEN Response("GET /summary", fetched.val, ErrorBody("Failed to retrieve findings"))
        ELSE IF ~Truthy(fetched.val)
        THEN Response("GET /summary", 404, ErrorBody("No findings found for job"))
        ELSE LET summary == generate_scan_summary_of_dict(fetched.val, resp)
             IN  IF summary.exc
                 THEN Response("GET /summary", 500, ErrorBody("Failed to generate AI summary"))
                 ELSE Response("GET /summary", 200,
                               SummaryBody(job_id, summary.val, PyLen(fetched.val)))

SummaryRows == SeqsUpTo(ListFindings, MaxList)

InitJobSummary ==
    /\ \/ ai_enabled = FALSE /\ backend = NotCalled
       \/ ai_enabled = TRUE /\ backend \in SummaryProbes
    /\ stored \in SummaryRows
    /\ collab \in SummaryCollabs
    /\ call = NoCall
    /\ first = NoCall
    /\ attempt = NoAttempt
    /\ request = NoRequest
    /\ store = <<>>
    /\ message = "none"
    /\ clock = 0
    /\ bucket = <<>>
    /\ job = NoJob
    /\ RuleIdle

GetSummary ==
    /\ request' = get_ai_summary("job-1", stored, backend, collab)
    /\ UNCHANGED <<ruleVars, synthVars, attempt, collab, store, message, clock, bucket, job>>

NextJobSummary == GetSummary

SpecJobSummary == InitJobSummary /\ [][NextJobSummary]_vars

-----------------------------------------------------------------------------
(* Claims about the summary endpoint *)

\* C28: for a job with stored findings GET /summary/{job_id} answers 200
\* with a summary of these findings: total_findings is their number and the
\* severity counts of the summary add up to it; for a job without stored
\* findings it answers 404; the ai_powered flag of the answer is the
\* ai_powered tag of the summary inside it.
C28_SummaryOfStoredFindings ==
    (request.kind = "GET /summary" /\ collab.query = "ok") =>
        IF stored = <<>> THEN request.status = 404
        ELSE /\ request.status = 200
             /\ request.body.total_findings = Len(stored)
             /\ LET counts == request.body.summary.severity_counts
                IN  counts["CRITICAL"] + counts["HIGH"] + counts["MEDIUM"] + counts["LOW"]
                        = Len(stored)
             /\ request.body.ai_powered = request.body.summary.ai_powered


-----------------------------------------------------------------------------
(* SpecHandler: process_scan_request followed statement by statement for one *)
(* delivery of a message, counting the calls of message.ack() and            *)
(* message.nack()                                                            *)

\* The payload is a JSON object with job_id and service_name, is no JSON, or
\* is a JSON object without job_id (KeyError).
HandlerCollabs ==
    [kind : {"handler"}, payload : {"ok", "malformed", "no_job_id"},
     fetch : {"ok", "get_service_raises", "get_iam_policy_raises"},
     get_table : {"ok", "raises"}, insert_rows : {"ok", "errors", "raises"}]

Handling(pc, fs, acks, nacks) == [pc |-> pc, findings |-> fs, acks |-> acks, nacks |-> nacks]

\* a scan that lets the exception of a failed fetch reach the handler
AfterScan_propagates(fetch) == IF fetch = "ok" THEN "write" ELSE "except"

\* where the handler goes after scan_cloud_run_service: the scan catches
\* every exception itself and returns its list, so the handler goes on
AfterScan(fetch) == "write"

InitHandler ==
    /\ policy \in QueuePolicies
    /\ service \in QueueServices
    /\ collab \in HandlerCollabs
    /\ message = "pending"
    /\ attempt = Handling("parse", <<>>, 0, 0)
    /\ request = NoRequest
    /\ store = <<>>
    /\ clock = 0
    /\ bucket = <<>>
    /\ job = NoJob
    /\ scans = <<>>
    /\ binding = NoBinding
    /\ findings0 = <<>>
    /\ findings = <<>>
    /\ bpc = "idle"
    /\ SynthIdle

\* data = json.loads(message.data.decode('utf-8')); job_id = data['job_id']; ...
ParseMessage ==
    /\ attempt.pc = "parse"
    /\ attempt' = [attempt EXCEPT !.pc = IF collab.payload = "ok" THEN "scan" ELSE "except"]
    /\ UNCHANGED <<ruleVars, synthVars, collab, request, store, message, clock, bucket, job>>

\* findings = scan_cloud_run_service(service_name, region, project_id)
ScanService ==
    /\ attempt.pc = "scan"
    /\ attempt' = [attempt EXCEPT
                      !.pc = AfterScan(collab.fetch),
                      !.findings = scan_cloud_run_service(collab.fetch, policy, service)]
    /\ UNCHANGED <<ruleVars, synthVars, collab, request, store, message, clock, bucket, job>>

\* write_findings_to_bigquery(job_id, service_name, findings): None on every path
WriteScanFindings ==
    /\ attempt.pc = "write"
    /\ \E stamps \in Stamps(Len(attempt.findings), clock) :
          LET w == write_findings_to_bigquery("job-1", "payments-api",
                                              ToDicts(attempt.findings), stamps, collab)
          IN  /\ store' = store \o w.rows
              /\ clock' = LastReading(attempt.findings, stamps, clock, collab)
              /\ request' = [kind |-> "write", findings |-> attempt.findings,
                             outcome |-> w.outcome]
    /\ attempt' = [attempt EXCEPT !.pc = "ack"]
    /\ UNCHANGED <<ruleVars, synthVars, collab, message, bucket, job>>

\* message.ack()
Ack ==
    /\ attempt.pc = "ack"
    /\ attempt' = [attempt EXCEPT !.pc = "done", !.acks = @ + 1]
    /\ message' = "acked"
    /\ UNCHANGED <<ruleVars, synthVars, collab, request, store, clock, bucket, job>>

\* except Exception: message.nack()
Nack ==
    /\ attempt.pc = "except"
    /\ attempt' = [attempt EXCEPT !.pc = "done", !.nacks = @ + 1]
    /\ message' = "nacked"
    /\ UNCHANGED <<ruleVars, synthVars, collab, request, store, clock, bucket, job>>

NextHandler ==
    \/ ParseMessage
    \/ ScanService
    \/ WriteScanFindings
    \/ Ack
    \/ Nack

SpecHandler == InitHandler /\ [][NextHandler]_vars

-----------------------------------------------------------------------------
(* Claims about the message handler *)

\* C29: for a message handed to process_scan_request exactly one of ack and
\* nack is called, once: nack when the payload cannot be parsed or lacks a
\* key, ack otherwise, never both; when a fetch of the scan fails the scan
\* returns the fragments it has (none) and the message is acked.
C29_AckOrNackOnce ==
    /\ attempt.acks + attempt.nacks <= 1
    /\ attempt.pc = "done" =>
          /\ attempt.acks + attempt.nacks = 1
          /\ attempt.nacks = 1 <=> collab.payload # "ok"
          /\ attempt.acks = 1 <=> message = "acked"
          /\ attempt.nacks = 1 <=> message = "nacked"
          /\ (collab.payload = "ok" /\ collab.fetch # "ok") =>
                (attempt.acks = 1 /\ attempt.findings = <<>>)
    /\ attempt.pc # "done" => message = "pending"

\* C29 witness: get_iam_policy raised inside the scan, the scan returned an
\* empty list, and the message was acked once and not nacked.
C29_Witness ==
    /\ attempt.pc = "done"
    /\ collab.payload = "ok"
    /\ collab.fetch = "get_iam_policy_raises"
    /\ attempt.findings = <<>>
    /\ attempt.acks = 1
    /\ attempt.nacks = 0


-----------------------------------------------------------------------------
(* SpecScanRequest: one request to POST /scan, the message it publishes, the *)
(* scan-processor job execution it triggers, and a scan processor in legacy  *)
(* mode subscribed to the queue                                              *)

ScanCollabs ==
    [kind : {"scan request"}, publish : {"ok", "raises"},
     trigger : {"ok", "status_not_200", "raises"}, payload : {"ok"},
     fetch : {"ok", "get_iam_policy_raises"},
     get_table : {"ok", "raises"}, insert_rows : {"ok", "errors", "raises"}]

Triggered(job_id) == [state |-> "triggered", job_id |-> job_id]

Executed(job_id, fs, outcome) ==
    [state |-> "done", job_id |-> job_id, findings |-> fs, outcome |-> outcome]

\* POST /scan: the message is published, then the job zte-scan-processor is
\* run with JOB_ID and SERVICE_NAME overridden; a trigger that fails is only
\* logged; a publish that raises gives 500 before the trigger is tried
scan(job_id, c) ==
    IF c.publish = "raises"
    THEN [response |-> Response("scan", 500, ErrorBody("Failed to publish scan request")),
          message |-> "none", job |-> NoJob]
    ELSE [response |-> Response("scan", 200, [job_id |-> job_id, status |-> "queued"]),
          message |-> "pending",
          job |-> IF c.trigger = "ok" THEN Triggered(job_id) ELSE NoJob]

InitScanRequest ==
    /\ policy \in QueuePolicies
    /\ service \in QueueServices
    /\ collab \in ScanCollabs
    /\ message = "none"
    /\ request = Processed(0, <<>>, "none")
    /\ store = <<>>
    /\ clock = 0
    /\ bucket = <<>>
    /\ job = NoJob
    /\ attempt = NoAttempt
    /\ scans = <<>>
    /\ binding = NoBinding
    /\ findings0 = <<>>
    /\ findings = <<>>
    /\ bpc = "idle"
    /\ SynthIdle

PostScan ==
    /\ attempt = NoAttempt
    /\ LET r == scan("job-1", collab)
       IN  /\ attempt' = r.response
           /\ message' = r.message
           /\ job' = r.job
    /\ UNCHANGED <<ruleVars, synthVars, collab, request, store, clock, bucket>>

\* scan_processor.main() with JOB_ID and SERVICE_NAME set: the service is
\* scanned and the findings are written under that job_id
RunScanJob ==
    /\ job.state = "triggered"
    /\ LET fs == scan_cloud_run_service(collab.fetch, policy, service)
       IN  \E stamps \in Stamps(Len(fs), clock) :
             LET w == write_findings_to_bigquery(job.job_id, "payments-api",
                                                 ToDicts(fs), stamps, collab)
             IN  /\ store' = store \o w.rows
                 /\ clock' = LastReading(fs, stamps, clock, collab)
                 /\ job' = Executed(job.job_id, fs, w.outcome)
    /\ UNCHANGED <<ruleVars, synthVars, attempt, collab, request, message, bucket>>

\* scan_processor.main() without JOB_ID: the subscription's callback is
\* process_scan_request
NextScanRequest ==
    \/ PostScan
    \/ RunScanJob
    \/ ProcessScanRequest
    \/ Redeliver

SpecScanRequest == InitScanRequest /\ [][NextScanRequest]_vars

-----------------------------------------------------------------------------
(* Claims about the executions of one scan request *)

\* C30: an accepted scan request leads to at most one execution of the scan
\* for its job_id, so the table holds at most one batch of rows with that
\* job_id: never more rows than one scan of the service has findings.
C30_OneBatchPerRequest ==
    Len(store) <= Len(scan_cloud_run_service(collab.fetch, policy, service))

=============================================================================
